---- MODULE Spec2Model ----
(***************************************************************************)
(* Model of the SMTP client of QtSmtpClient (src/utils/smtp).              *)
(*                                                                         *)
(* The driver (Smtp::Client) is a blocking, single threaded state machine  *)
(* over a QTcpSocket/QSslSocket.  The only other process is the server,    *)
(* which may write lines to the connection at any moment.  A line the      *)
(* server wrote is first "in flight" (net) and reaches the read buffer of  *)
(* the socket (sock.rbuf) only while the client blocks in a waitFor* call  *)
(* or while the application's event loop runs between two API calls.      *)
(*                                                                         *)
(* Texts whose bytes are inspected (reply lines, e-mail addresses) are     *)
(* sequences of one-character strings; texts of which only emptiness and   *)
(* equality matter (hosts, user names) are strings; the bytes written to   *)
(* the socket are tuples of the pieces the code concatenates.              *)
(***************************************************************************)
EXTENDS Integers, Sequences, FiniteSets, TLC

VARIABLES
    d,          \* Client::PrivateData
    sock,       \* the QTcpSocket / QSslSocket behind d->socket
    net,        \* lines written by the server, not yet in the read buffer
    nstale,     \* how many of the oldest pending lines the server wrote
                \* before the client's latest write
    pc,         \* 0: no call in progress; n > 0: next step of Script
    op,         \* the API call in progress, or the last one that returned
    msg,        \* argument of the sendMessage call in progress / last made
    ret,        \* return value of the last call that returned
    trace,      \* socket events of the call in progress / last made
    msgBody,    \* QByteArray msgBody of connectToServer (CRAM-MD5 challenge)
    warnings,   \* records pn_fail logged in the call in progress / last made,
                \* each the tuple of its text and its arguments
    staleAccepted, \* the reply the call accepted last is a line the server
                \* had written before the command it answers was sent
    aborted,    \* std::abort() was called by a Fatal log record
    nsent,      \* sendMessage calls that returned true since the client
                \* last became Connected
    arg,        \* arguments of the call of a function of the library made
                \* on its own, outside a Client
    res,        \* what that call returned, NoResult before it returns
    log         \* the log sink of the process: RTLogHandler::mutex, the
                \* handlers being destroyed, stderr, the log file and its
                \* backup

vars == <<d, sock, net, nstale, pc, op, msg, ret, trace, msgBody, warnings,
          staleAccepted, aborted, nsent, arg, res, log>>

\* the variables of a call of a function of the library on its own
PureVars == <<arg, res, log>>

\* the variables of a Client and its connection
ClientVars == <<d, sock, net, nstale, pc, op, msg, ret, trace, msgBody,
                warnings, staleAccepted, aborted, nsent, log>>

NoCall == [f |-> "none"]

NoResult == [done |-> FALSE]

-----------------------------------------------------------------------------
(* Bounds of the model.                                                    *)

\* most lines the server may have written that the client has not consumed
MaxPending == 2

\* most messages sent over one connection
MaxSent == 2

-----------------------------------------------------------------------------
(* QByteArray / QString helpers.                                           *)

Min(a, b) == IF a < b THEN a ELSE b

Max(a, b) == IF a > b THEN a ELSE b

\* QByteArray::left(n)
left(s, n) == SubSeq(s, 1, Min(n, Len(s)))

\* QByteArray::mid(pos, len), pos counted from 0
mid(s, pos, len) ==
    IF pos >= Len(s) THEN << >> ELSE SubSeq(s, pos + 1, Min(pos + len, Len(s)))

\* QByteArray::mid(pos): everything from pos on
midFrom(s, pos) == mid(s, pos, Len(s))

\* the characters QByteArray::trimmed() strips from both ends and the
\* regular expression \s matches: space, tab, line feed, vertical tab (the
\* character 11, written literally), form feed, carriage return
IsSpace(c) == c \in {" ", "\t", "\n", "", "\f", "\r"}

RECURSIVE dropLeadingSpace(_)
dropLeadingSpace(s) ==
    IF s # << >> /\ IsSpace(Head(s)) THEN dropLeadingSpace(Tail(s)) ELSE s

RECURSIVE dropTrailingSpace(_)
dropTrailingSpace(s) ==
    IF s # << >> /\ IsSpace(s[Len(s)])
    THEN dropTrailingSpace(SubSeq(s, 1, Len(s) - 1))
    ELSE s

\* QByteArray::trimmed()
trimmed(s) == dropTrailingSpace(dropLeadingSpace(s))

\* the string made of the characters of s
RECURSIVE Join(_)
Join(s) == IF s = << >> THEN "" ELSE Head(s) \o Join(Tail(s))

\* QByteArray::toBase64() of a credential or of a digest, kept symbolic: the
\* commands of the authentication carry it as a token the server takes or
\* refuses whole
toBase64(x) == "base64(" \o x \o ")"

\* QByteArray::fromBase64() of a string, kept symbolic
fromBase64(x) == "unbase64(" \o x \o ")"

\* QMessageAuthenticationCode(Md5) with key and data, result().toHex(),
\* kept symbolic
hmacMd5Hex(key, data) == "hmac-md5(" \o key \o "," \o data \o ")"

-----------------------------------------------------------------------------
(* Client::PrivateData and the socket.                                     *)

AuthMethods == {"AuthNone", "AuthPlain", "AuthLogin", "AuthCramMd5"}

ConnectionTypes ==
    {"UnknownConnection", "TcpConnection", "SslConnection", "TlsConnection"}

\* QHostInfo::localHostName() of the machine the client runs on
LocalHostName == "localhost"

\* values the setters are called with
Hosts == {"", "mail.example"}

ClientHosts == {"", LocalHostName}

Ports == {0, 25}

Users == {"", "user"}

Passwords == {"", "secret"}

Timeouts == {15000, 60000}

\* struct Smtp::Client::PrivateData, as constructed
PrivateData0 ==
    [ status           |-> "ST_Disconnected",
      serverHost       |-> "",
      serverPort       |-> 0,
      clientHost       |-> LocalHostName,
      connectionType   |-> "UnknownConnection",
      accountUsername  |-> "",
      accountPassword  |-> "",
      authMethod       |-> "AuthNone",
      connectionTimout |-> 15000,
      responseTimeout  |-> 15000,
      sendTimeout      |-> 60000,
      socket           |-> "nullptr",
      logSocketTraffic |-> FALSE ]

\* a socket nobody opened: QIODevice closed, UnconnectedState, empty buffer
SocketClosed ==
    [ open |-> FALSE, state |-> "UnconnectedState", encrypted |-> FALSE,
      rbuf |-> << >> ]

\* QIODevice::canReadLine(): rbuf holds complete lines only
canReadLine(buf) == buf # << >>

-----------------------------------------------------------------------------
(* EmailAddress and MimeMessage, as far as the driver reads them.          *)

Digit == {"0", "1", "2", "3", "4", "5", "6", "7", "8", "9"}

Alpha ==
    {"A", "B", "C", "D", "E", "F", "G", "H", "I", "J", "K", "L", "M",
     "N", "O", "P", "Q", "R", "S", "T", "U", "V", "W", "X", "Y", "Z",
     "a", "b", "c", "d", "e", "f", "g", "h", "i", "j", "k", "l", "m",
     "n", "o", "p", "q", "r", "s", "t", "u", "v", "w", "x", "y", "z"}

\* [A-Za-z0-9._%+-]
EmailLocalChar == Alpha \cup Digit \cup {".", "_", "%", "+", "-"}

\* [A-Za-z0-9.-]
EmailDomainChar == Alpha \cup Digit \cup {".", "-"}

\* ^[A-Za-z0-9._%+-]+@[A-Za-z0-9.-]+\.[A-Za-z]+ matching all of s
EmailPatternMatchesAll(s) ==
    \E i \in 2 .. Len(s) : \E j \in (i + 2) .. (Len(s) - 1) :
        /\ s[i] = "@"
        /\ s[j] = "."
        /\ \A k \in 1 .. (i - 1) : s[k] \in EmailLocalChar
        /\ \A k \in (i + 1) .. (j - 1) : s[k] \in EmailDomainChar
        /\ \A k \in (j + 1) .. Len(s) : s[k] \in Alpha

\* QRegularExpression(RexPatterns::Email).match(s).hasMatch(); the final $
\* of the pattern also matches in front of a last line feed
EmailPatternHasMatch(s) ==
    \/ EmailPatternMatchesAll(s)
    \/ /\ s # << >>
       /\ s[Len(s)] = "\n"
       /\ EmailPatternMatchesAll(SubSeq(s, 1, Len(s) - 1))

\* EmailAddress(email, ownerName); d_email is a sequence of characters
EmailAddress(email, name) == [d_email |-> email, d_name |-> name]

EmailAddress_isEmpty(a) == a.d_email = << >> /\ a.d_name = ""

EmailAddress_isValid(a) ==
    IF EmailAddress_isEmpty(a) THEN FALSE ELSE EmailPatternHasMatch(a.d_email)

-----------------------------------------------------------------------------
(* MimeUtils.  Byte strings are strings; CharAt(s, i) is the i-th byte.    *)

\* QByteArray::at(i - 1)
CharAt(s, i) == SubSeq(s, i, i)

\* the bytes outside [0-9A-Za-z] the texts of this model are made of, with
\* QByteArray::toHex().toUpper() of each
HexUpper ==
    [c \in {" ", "!", ".", "=", "?", "@", "_", "-", "<", ">", "\r", "\n",
            "Ã", "©"} |->
        CASE c = " " -> "20" [] c = "!" -> "21" [] c = "." -> "2E"
          [] c = "=" -> "3D" [] c = "?" -> "3F" [] c = "@" -> "40"
          [] c = "_" -> "5F" [] c = "-" -> "2D" [] c = "<" -> "3C"
          [] c = ">" -> "3E" [] c = "\r" -> "0D" [] c = "\n" -> "0A"
          [] c = "Ã" -> "C3" [] c = "©" -> "A9"]

\* QString::toUtf8: a character below U+0080 is one byte, "é" (U+00E9) the
\* two bytes C3 A9, written as the characters that have these codes
RECURSIVE toUtf8(_)
toUtf8(text) ==
    IF text = "" THEN ""
    ELSE (IF Head(text) = "é" THEN "Ã©" ELSE Head(text))
         \o toUtf8(Tail(text))

\* the test without the fallback for the bytes below '0': space stays
pn_needEscape_spaceLiteral(input) ==
    input \notin (Alpha \cup Digit \cup {" "})

pn_needEscapeForQuotedPrintableEncoding(input) ==
    input \notin (Alpha \cup Digit)

\* the for loop of encodeQuotedPrintable over the bytes of the text
RECURSIVE encodeQuotedPrintable_loop(_)
encodeQuotedPrintable_loop(utf8Encoded) ==
    IF utf8Encoded = "" THEN ""
    ELSE (IF pn_needEscapeForQuotedPrintableEncoding(Head(utf8Encoded))
          THEN "=" \o HexUpper[Head(utf8Encoded)]
          ELSE Head(utf8Encoded))
         \o encodeQuotedPrintable_loop(Tail(utf8Encoded))

\* MimeUtils::encodeQuotedPrintable
encodeQuotedPrintable(text) ==
    IF text = "" THEN "" ELSE encodeQuotedPrintable_loop(toUtf8(text))

\* the loop taking one byte at a time, whatever the byte
RECURSIVE formatQPIntoLines_bytewise(_, _, _, _)
formatQPIntoLines_bytewise(encoded, maxLineSize, ix, lastLineSize) ==
    IF ix >= Len(encoded) THEN ""
    ELSE LET break == (lastLineSize + 1) > maxLineSize - 1
         IN  (IF break THEN "=\r\n" ELSE "")
             \o CharAt(encoded, ix + 1)
             \o formatQPIntoLines_bytewise(
                    encoded, maxLineSize, ix + 1,
                    (IF break THEN 0 ELSE lastLineSize) + 1)

\* the for loop of formatQuotedPrintableIntoLines from index ix (from 0) on
RECURSIVE formatQuotedPrintableIntoLines_loop(_, _, _, _)
formatQuotedPrintableIntoLines_loop(encoded, maxLineSize, ix, lastLineSize) ==
    IF ix >= Len(encoded) THEN ""
    ELSE LET requiredBytes == IF CharAt(encoded, ix + 1) = "=" THEN 3 ELSE 1
             break == (lastLineSize + requiredBytes) > maxLineSize - 1
         IN  (IF break THEN "=\r\n" ELSE "")
             \o SubSeq(encoded, ix + 1, Min(ix + requiredBytes, Len(encoded)))
             \o formatQuotedPrintableIntoLines_loop(
                    encoded, maxLineSize, ix + requiredBytes,
                    (IF break THEN 0 ELSE lastLineSize) + requiredBytes)

\* formatQuotedPrintableIntoLines folding at line size 0
formatQuotedPrintableIntoLines_zeroFolds(encoded, maxLineSize) ==
    IF maxLineSize < 0 \/ encoded = "" THEN encoded
    ELSE formatQuotedPrintableIntoLines_loop(encoded, maxLineSize, 0, 0)

\* MimeUtils::formatQuotedPrintableIntoLines
formatQuotedPrintableIntoLines(encoded, maxLineSize) ==
    IF maxLineSize <= 0 \/ encoded = "" THEN encoded
    ELSE formatQuotedPrintableIntoLines_loop(encoded, maxLineSize, 0, 0)

\* the loop breaking one byte early
RECURSIVE formatDataIntoLines_loop_early(_, _, _)
formatDataIntoLines_loop_early(data, maxLineSize, lastLineSize) ==
    IF data = "" THEN ""
    ELSE LET break == lastLineSize + 1 >= maxLineSize
         IN  (IF break THEN "\r\n" ELSE "")
             \o Head(data)
             \o formatDataIntoLines_loop_early(
                    Tail(data), maxLineSize,
                    (IF break THEN 0 ELSE lastLineSize) + 1)

\* the for loop of formatDataIntoLines
RECURSIVE formatDataIntoLines_loop(_, _, _)
formatDataIntoLines_loop(data, maxLineSize, lastLineSize) ==
    IF data = "" THEN ""
    ELSE LET break == lastLineSize >= maxLineSize
         IN  (IF break THEN "\r\n" ELSE "")
             \o Head(data)
             \o formatDataIntoLines_loop(
                    Tail(data), maxLineSize,
                    (IF break THEN 0 ELSE lastLineSize) + 1)

\* MimeUtils::formatDataIntoLines
formatDataIntoLines(data, maxLineSize) ==
    IF maxLineSize <= 0 \/ data = "" THEN data
    ELSE formatDataIntoLines_loop(data, maxLineSize, 0)

MaxLineSize == 76

MaxMimeWordSize == 60

\* pn_splitTextIntoChunks
RECURSIVE pn_splitTextIntoChunks(_, _)
pn_splitTextIntoChunks(text, maxChunkSize) ==
    IF text = "" THEN << >>
    ELSE IF maxChunkSize <= 0 \/ maxChunkSize >= Len(text) THEN <<text>>
    ELSE <<SubSeq(text, 1, maxChunkSize)>>
            \o (IF Len(text) - maxChunkSize <= maxChunkSize
                THEN <<SubSeq(text, maxChunkSize + 1, Len(text))>>
                ELSE pn_splitTextIntoChunks(
                        SubSeq(text, maxChunkSize + 1, Len(text)),
                        maxChunkSize))

\* QByteArrayList::join
RECURSIVE join(_, _)
join(words, sep) ==
    IF words = << >> THEN ""
    ELSE IF Len(words) = 1 THEN words[1]
    ELSE words[1] \o sep \o join(Tail(words), sep)

\* the while loop of encodeMimeWordQ giving up one byte above the size
RECURSIVE encodeMimeWordQ_loop_lax(_, _, _)
encodeMimeWordQ_loop_lax(text, maxWordSize, maxEncodedTextSize) ==
    LET chunks == pn_splitTextIntoChunks(text, maxEncodedTextSize)
        words == [i \in 1 .. Len(chunks) |->
                    "=?utf-8?Q?" \o encodeQuotedPrintable(chunks[i]) \o "?="]
        longestWordSize ==
            IF words = << >> THEN 0
            ELSE CHOOSE n \in {Len(words[i]) : i \in 1 .. Len(words)} :
                    \A i \in 1 .. Len(words) : Len(words[i]) <= n
    IN  IF longestWordSize <= maxWordSize + 1 \/ maxEncodedTextSize <= 1
        THEN join(words, "\r\n ")
        ELSE encodeMimeWordQ_loop_lax(
                text, maxWordSize,
                (maxEncodedTextSize \div 2) + (maxEncodedTextSize % 2))

\* the while loop of encodeMimeWordQ
RECURSIVE encodeMimeWordQ_loop(_, _, _)
encodeMimeWordQ_loop(text, maxWordSize, maxEncodedTextSize) ==
    LET chunks == pn_splitTextIntoChunks(text, maxEncodedTextSize)
        words == [i \in 1 .. Len(chunks) |->
                    "=?utf-8?Q?" \o encodeQuotedPrintable(chunks[i]) \o "?="]
        longestWordSize ==
            IF words = << >> THEN 0
            ELSE CHOOSE n \in {Len(words[i]) : i \in 1 .. Len(words)} :
                    \A i \in 1 .. Len(words) : Len(words[i]) <= n
    IN  IF longestWordSize <= maxWordSize \/ maxEncodedTextSize <= 1
        THEN join(words, "\r\n ")
        ELSE encodeMimeWordQ_loop(
                text, maxWordSize,
                (maxEncodedTextSize \div 2) + (maxEncodedTextSize % 2))

\* MimeUtils::encodeMimeWordQ
encodeMimeWordQ(text, maxWordSize) ==
    IF text = "" THEN ""
    ELSE encodeMimeWordQ_loop(text, maxWordSize, Len(text))

\* the bytes 32 .. 95, in order
AsciiTo95 ==
    " !\"#$%&'()*+,-./0123456789:;<=>?@ABCDEFGHIJKLMNOPQRSTUVWXYZ[\\]^_"

\* the bytes 97 .. 126, in order
AsciiFrom97 == "abcdefghijklmnopqrstuvwxyz{|}~"

\* the characters of chars with the values first, first + 1, ...
RECURSIVE ByteValuesFrom(_, _)
ByteValuesFrom(chars, first) ==
    IF chars = "" THEN [c \in {} |-> 0]
    ELSE (Head(chars) :> first) @@ ByteValuesFrom(Tail(chars), first + 1)

\* the values of the bytes the byte strings are made of; the byte 96, the
\* grave accent, is one no string of this module can hold
ByteValue ==
    ByteValuesFrom(AsciiTo95, 32) @@ ByteValuesFrom(AsciiFrom97, 97)
        @@ ("\t" :> 9) @@ ("\n" :> 10) @@ ("\f" :> 12) @@ ("\r" :> 13)
        @@ ("Ã" :> 195) @@ ("©" :> 169)

\* the base64 alphabet
Base64Chars ==
    "ABCDEFGHIJKLMNOPQRSTUVWXYZabcdefghijklmnopqrstuvwxyz0123456789+/"

\* the base64 character of a value of six bits
Base64Char(v) == CharAt(Base64Chars, v + 1)

\* QByteArray::toBase64 of the bytes of a byte string
RECURSIVE QByteArray_toBase64(_)
QByteArray_toBase64(bytes) ==
    IF bytes = "" THEN ""
    ELSE LET b1 == ByteValue[CharAt(bytes, 1)]
             b2 == IF Len(bytes) >= 2 THEN ByteValue[CharAt(bytes, 2)] ELSE 0
             b3 == IF Len(bytes) >= 3 THEN ByteValue[CharAt(bytes, 3)] ELSE 0
         IN  Base64Char(b1 \div 4)
             \o Base64Char((b1 % 4) * 16 + (b2 \div 16))
             \o (IF Len(bytes) >= 2
                 THEN Base64Char((b2 % 16) * 4 + (b3 \div 64)) ELSE "=")
             \o (IF Len(bytes) >= 3 THEN Base64Char(b3 % 64) ELSE "=")
             \o (IF Len(bytes) > 3
                 THEN QByteArray_toBase64(SubSeq(bytes, 4, Len(bytes)))
                 ELSE "")

\* the while loop of encodeMimeWordB
RECURSIVE encodeMimeWordB_loop(_, _, _)
encodeMimeWordB_loop(text, maxWordSize, maxEncodedTextSize) ==
    LET chunks == pn_splitTextIntoChunks(text, maxEncodedTextSize)
        words == [i \in 1 .. Len(chunks) |->
                    "=?utf-8?B?" \o QByteArray_toBase64(toUtf8(chunks[i]))
                        \o "?="]
        longestWordSize ==
            IF words = << >> THEN 0
            ELSE CHOOSE n \in {Len(words[i]) : i \in 1 .. Len(words)} :
                    \A i \in 1 .. Len(words) : Len(words[i]) <= n
    IN  IF longestWordSize <= maxWordSize \/ maxEncodedTextSize <= 1
        THEN join(words, "\r\n ")
        ELSE encodeMimeWordB_loop(
                text, maxWordSize,
                (maxEncodedTextSize \div 2) + (maxEncodedTextSize % 2))

\* MimeUtils::encodeMimeWordB
encodeMimeWordB(text, maxWordSize) ==
    IF text = "" THEN ""
    ELSE encodeMimeWordB_loop(text, maxWordSize, Len(text))

\* QString::replace(QRegularExpression("\\s+"), "_")
RECURSIVE replaceSpaces(_)
replaceSpaces(name) ==
    IF name = "" THEN ""
    ELSE IF IsSpace(Head(name))
    THEN IF Len(name) > 1 /\ IsSpace(CharAt(name, 2))
         THEN replaceSpaces(Tail(name))
         ELSE "_" \o replaceSpaces(Tail(name))
    ELSE Head(name) \o replaceSpaces(Tail(name))

\* QString::remove(QRegularExpression("[^A-Za-z0-9\\-_\\.]"))
RECURSIVE removeUnallowed(_)
removeUnallowed(name) ==
    IF name = "" THEN ""
    ELSE (IF Head(name) \in (Alpha \cup Digit \cup {"-", "_", "."})
          THEN Head(name) ELSE "")
         \o removeUnallowed(Tail(name))

\* MimePart::setContentName: the name stored
setContentName(name) == removeUnallowed(replaceSpaces(name))

\* QString::toLower() of a name made of bytes below 128
RECURSIVE toLower(_)
toLower(s) ==
    IF s = "" THEN ""
    ELSE (IF ByteValue[Head(s)] \in 65 .. 90
          THEN CharAt(AsciiFrom97, ByteValue[Head(s)] - 64)
          ELSE Head(s))
         \o toLower(Tail(s))

\* the name ends with the suffix
endsWith(name, suffix) ==
    /\ Len(name) >= Len(suffix)
    /\ SubSeq(name, Len(name) - Len(suffix) + 1, Len(name)) = suffix

\* the globs of the MIME database (shared-mime-info 2.2) as its mime.cache
\* holds them, <<type, weight, pattern, case sensitive>>: the pattern in
\* lower case unless it is case sensitive, the weight 50 unless the database
\* gives one; in the order of the type names
MimeGlobs ==
    <<
    <<"application/andrew-inset", 50, "*.ez", FALSE>>,
    <<"application/annodex", 50, "*.anx", FALSE>>,
    <<"application/atom+xml", 50, "*.atom", FALSE>>,
    <<"application/dicom", 50, "*.dcm", FALSE>>,
    <<"application/dicom", 50, "dicomdir", FALSE>>,
    <<"application/ecmascript", 50, "*.es", FALSE>>,
    <<"application/epub+zip", 50, "*.epub", FALSE>>,
    <<"application/fits", 50, "*.fit", FALSE>>,
    <<"application/fits", 50, "*.fits", FALSE>>,
    <<"application/fits", 50, "*.fts", FALSE>>,
    <<"application/geo+json", 50, "*.geo.json", FALSE>>,
    <<"application/geo+json", 50, "*.geojson", FALSE>>,
    <<"application/gml+xml", 50, "*.gml", FALSE>>,
    <<"application/gnunet-directory", 50, "*.gnd", FALSE>>,
    <<"application/gpx+xml", 50, "*.gpx", FALSE>>,
    <<"application/gzip", 50, "*.gz", FALSE>>,
    <<"application/illustrator", 50, "*.ai", FALSE>>,
    <<"application/javascript", 50, "*.js", FALSE>>,
    <<"application/javascript", 50, "*.jsm", FALSE>>,
    <<"application/javascript", 50, "*.mjs", FALSE>>,
    <<"application/jrd+json", 50, "*.jrd", FALSE>>,
    <<"application/json", 50, "*.json", FALSE>>,
    <<"application/json-patch+json", 50, "*.json-patch", FALSE>>,
    <<"application/ld+json", 50, "*.jsonld", FALSE>>,
    <<"application/mathematica", 50, "*.nb", FALSE>>,
    <<"application/mathml+xml", 50, "*.mml", FALSE>>,
    <<"application/mbox", 50, "*.mbox", FALSE>>,
    <<"application/metalink+xml", 50, "*.metalink", FALSE>>,
    <<"application/metalink4+xml", 50, "*.meta4", FALSE>>,
    <<"application/msword", 50, "*.doc", FALSE>>,
    <<"application/msword-template", 50, "*.dot", FALSE>>,
    <<"application/mxf", 50, "*.mxf", FALSE>>,
    <<"application/oda", 50, "*.oda", FALSE>>,
    <<"application/ogg", 50, "*.ogx", FALSE>>,
    <<"application/ovf", 50, "*.ova", FALSE>>,
    <<"application/owl+xml", 50, "*.owx", FALSE>>,
    <<"application/oxps", 50, "*.oxps", FALSE>>,
    <<"application/pdf", 50, "*.pdf", FALSE>>,
    <<"application/pgp-encrypted", 10, "*.asc", FALSE>>,
    <<"application/pgp-encrypted", 50, "*.gpg", FALSE>>,
    <<"application/pgp-encrypted", 50, "*.pgp", FALSE>>,
    <<"application/pgp-keys", 10, "*.asc", FALSE>>,
    <<"application/pgp-keys", 50, "*.gpg", FALSE>>,
    <<"application/pgp-keys", 50, "*.key", FALSE>>,
    <<"application/pgp-keys", 50, "*.pgp", FALSE>>,
    <<"application/pgp-keys", 50, "*.pkr", FALSE>>,
    <<"application/pgp-keys", 50, "*.skr", FALSE>>,
    <<"application/pgp-signature", 10, "*.asc", FALSE>>,
    <<"application/pgp-signature", 50, "*.gpg", FALSE>>,
    <<"application/pgp-signature", 50, "*.pgp", FALSE>>,
    <<"application/pgp-signature", 50, "*.sig", FALSE>>,
    <<"application/pkcs10", 50, "*.p10", FALSE>>,
    <<"application/pkcs12", 50, "*.p12", FALSE>>,
    <<"application/pkcs12", 50, "*.pfx", FALSE>>,
    <<"application/pkcs7-mime", 50, "*.p7c", FALSE>>,
    <<"application/pkcs7-mime", 50, "*.p7m", FALSE>>,
    <<"application/pkcs7-signature", 50, "*.p7s", FALSE>>,
    <<"application/pkcs8", 50, "*.p8", FALSE>>,
    <<"application/pkcs8-encrypted", 50, "*.p8e", FALSE>>,
    <<"application/pkix-cert", 50, "*.cer", FALSE>>,
    <<"application/pkix-crl", 50, "*.crl", FALSE>>,
    <<"application/pkix-pkipath", 50, "*.pkipath", FALSE>>,
    <<"application/postscript", 50, "*.ps", FALSE>>,
    <<"application/ram", 50, "*.ram", FALSE>>,
    <<"application/raml+yaml", 50, "*.raml", FALSE>>,
    <<"application/rdf+xml", 50, "*.owl", FALSE>>,
    <<"application/rdf+xml", 50, "*.rdf", FALSE>>,
    <<"application/rdf+xml", 50, "*.rdfs", FALSE>>,
    <<"application/relax-ng-compact-syntax", 50, "*.rnc", FALSE>>,
    <<"application/rss+xml", 50, "*.rss", FALSE>>,
    <<"application/rtf", 50, "*.rtf", FALSE>>,
    <<"application/schema+json", 50, "*.json", FALSE>>,
    <<"application/sdp", 50, "*.sdp", FALSE>>,
    <<"application/sieve", 50, "*.siv", FALSE>>,
    <<"application/smil+xml", 50, "*.kino", FALSE>>,
    <<"application/smil+xml", 50, "*.smi", FALSE>>,
    <<"application/smil+xml", 50, "*.smil", FALSE>>,
    <<"application/smil+xml", 50, "*.sml", FALSE>>,
    <<"application/sparql-query", 50, "*.qs", FALSE>>,
    <<"application/sparql-results+xml", 50, "*.srx", FALSE>>,
    <<"application/sql", 50, "*.sql", FALSE>>,
    <<"application/toml", 50, "*.toml", FALSE>>,
    <<"application/trig", 50, "*.trig", FALSE>>,
    <<"application/vnd.adobe.flash.movie", 50, "*.spl", FALSE>>,
    <<"application/vnd.adobe.flash.movie", 50, "*.swf", FALSE>>,
    <<"application/vnd.amazon.mobi8-ebook", 50, "*.azw3", FALSE>>,
    <<"application/vnd.amazon.mobi8-ebook", 50, "*.kfx", FALSE>>,
    <<"application/vnd.android.package-archive", 50, "*.apk", FALSE>>,
    <<"application/vnd.appimage", 60, "*.appimage", FALSE>>,
    <<"application/vnd.apple.keynote", 80, "*.key", FALSE>>,
    <<"application/vnd.apple.mpegurl", 50, "*.m3u", FALSE>>,
    <<"application/vnd.apple.mpegurl", 50, "*.m3u8", FALSE>>,
    <<"application/vnd.apple.numbers", 50, "*.numbers", FALSE>>,
    <<"application/vnd.apple.pages", 50, "*.pages", FALSE>>,
    <<"application/vnd.apple.pkpass", 50, "*.pkpass", FALSE>>,
    <<"application/vnd.chess-pgn", 50, "*.pgn", FALSE>>,
    <<"application/vnd.coffeescript", 50, "*.coffee", FALSE>>,
    <<"application/vnd.comicbook+zip", 50, "*.cbz", FALSE>>,
    <<"application/vnd.comicbook-rar", 50, "*.cbr", FALSE>>,
    <<"application/vnd.corel-draw", 50, "*.cdr", FALSE>>,
    <<"application/vnd.debian.binary-package", 50, "*.deb", FALSE>>,
    <<"application/vnd.debian.binary-package", 50, "*.udeb", FALSE>>,
    <<"application/vnd.emusic-emusic_package", 50, "*.emp", FALSE>>,
    <<"application/vnd.flatpak", 50, "*.flatpak", FALSE>>,
    <<"application/vnd.flatpak", 50, "*.xdgapp", FALSE>>,
    <<"application/vnd.flatpak.ref", 50, "*.flatpakref", FALSE>>,
    <<"application/vnd.flatpak.repo", 50, "*.flatpakrepo", FALSE>>,
    <<"application/vnd.framemaker", 50, "*.fm", FALSE>>,
    <<"application/vnd.google-earth.kml+xml", 50, "*.kml", FALSE>>,
    <<"application/vnd.google-earth.kmz", 50, "*.kmz", FALSE>>,
    <<"application/vnd.hp-hpgl", 50, "*.hpgl", FALSE>>,
    <<"application/vnd.hp-pcl", 50, "*.pcl", FALSE>>,
    <<"application/vnd.iccprofile", 50, "*.icc", FALSE>>,
    <<"application/vnd.iccprofile", 50, "*.icm", FALSE>>,
    <<"application/vnd.lotus-1-2-3", 50, "*.123", FALSE>>,
    <<"application/vnd.lotus-1-2-3", 50, "*.wk1", FALSE>>,
    <<"application/vnd.lotus-1-2-3", 50, "*.wk3", FALSE>>,
    <<"application/vnd.lotus-1-2-3", 50, "*.wk4", FALSE>>,
    <<"application/vnd.lotus-1-2-3", 50, "*.wks", FALSE>>,
    <<"application/vnd.lotus-wordpro", 50, "*.lwp", FALSE>>,
    <<"application/vnd.mozilla.xul+xml", 50, "*.xul", FALSE>>,
    <<"application/vnd.ms-access", 50, "*.mdb", FALSE>>,
    <<"application/vnd.ms-asf", 50, "*.asf", FALSE>>,
    <<"application/vnd.ms-cab-compressed", 50, "*.cab", FALSE>>,
    <<"application/vnd.ms-excel", 50, "*.xla", FALSE>>,
    <<"application/vnd.ms-excel", 50, "*.xlc", FALSE>>,
    <<"application/vnd.ms-excel", 50, "*.xld", FALSE>>,
    <<"application/vnd.ms-excel", 50, "*.xll", FALSE>>,
    <<"application/vnd.ms-excel", 50, "*.xlm", FALSE>>,
    <<"application/vnd.ms-excel", 50, "*.xls", FALSE>>,
    <<"application/vnd.ms-excel", 50, "*.xlt", FALSE>>,
    <<"application/vnd.ms-excel", 50, "*.xlw", FALSE>>,
    <<"application/vnd.ms-excel.addin.macroEnabled.12", 50, "*.xlam", FALSE>>,
    <<"application/vnd.ms-excel.sheet.binary.macroEnabled.12", 50, "*.xlsb", FALSE>>,
    <<"application/vnd.ms-excel.sheet.macroEnabled.12", 50, "*.xlsm", FALSE>>,
    <<"application/vnd.ms-excel.template.macroEnabled.12", 50, "*.xltm", FALSE>>,
    <<"application/vnd.ms-htmlhelp", 50, "*.chm", FALSE>>,
    <<"application/vnd.ms-powerpoint", 50, "*.pot", FALSE>>,
    <<"application/vnd.ms-powerpoint", 50, "*.pps", FALSE>>,
    <<"application/vnd.ms-powerpoint", 50, "*.ppt", FALSE>>,
    <<"application/vnd.ms-powerpoint", 50, "*.ppz", FALSE>>,
    <<"application/vnd.ms-powerpoint.addin.macroEnabled.12", 50, "*.ppam", FALSE>>,
    <<"application/vnd.ms-powerpoint.presentation.macroEnabled.12", 50, "*.pptm", FALSE>>,
    <<"application/vnd.ms-powerpoint.slide.macroEnabled.12", 50, "*.sldm", FALSE>>,
    <<"application/vnd.ms-powerpoint.slideshow.macroEnabled.12", 50, "*.ppsm", FALSE>>,
    <<"application/vnd.ms-powerpoint.template.macroEnabled.12", 50, "*.potm", FALSE>>,
    <<"application/vnd.ms-publisher", 50, "*.pub", FALSE>>,
    <<"application/vnd.ms-tnef", 50, "*.tnef", FALSE>>,
    <<"application/vnd.ms-tnef", 50, "*.tnf", FALSE>>,
    <<"application/vnd.ms-tnef", 50, "winmail.dat", FALSE>>,
    <<"application/vnd.ms-visio.drawing.macroEnabled.main+xml", 50, "*.vsdm", FALSE>>,
    <<"application/vnd.ms-visio.drawing.main+xml", 50, "*.vsdx", FALSE>>,
    <<"application/vnd.ms-visio.stencil.macroEnabled.main+xml", 50, "*.vssm", FALSE>>,
    <<"application/vnd.ms-visio.stencil.main+xml", 50, "*.vssx", FALSE>>,
    <<"application/vnd.ms-visio.template.macroEnabled.main+xml", 50, "*.vstm", FALSE>>,
    <<"application/vnd.ms-visio.template.main+xml", 50, "*.vstx", FALSE>>,
    <<"application/vnd.ms-word.document.macroEnabled.12", 50, "*.docm", FALSE>>,
    <<"application/vnd.ms-word.template.macroEnabled.12", 50, "*.dotm", FALSE>>,
    <<"application/vnd.ms-works", 50, "*.wcm", FALSE>>,
    <<"application/vnd.ms-works", 50, "*.wdb", FALSE>>,
    <<"application/vnd.ms-works", 50, "*.wks", FALSE>>,
    <<"application/vnd.ms-works", 50, "*.wps", FALSE>>,
    <<"application/vnd.ms-works", 50, "*.xlr", FALSE>>,
    <<"application/vnd.ms-wpl", 50, "*.wpl", FALSE>>,
    <<"application/vnd.ms-xpsdocument", 50, "*.xps", FALSE>>,
    <<"application/vnd.nintendo.snes.rom", 50, "*.sfc", FALSE>>,
    <<"application/vnd.nintendo.snes.rom", 50, "*.smc", FALSE>>,
    <<"application/vnd.oasis.opendocument.chart", 50, "*.odc", FALSE>>,
    <<"application/vnd.oasis.opendocument.chart-template", 50, "*.otc", FALSE>>,
    <<"application/vnd.oasis.opendocument.database", 50, "*.odb", FALSE>>,
    <<"application/vnd.oasis.opendocument.formula", 50, "*.odf", FALSE>>,
    <<"application/vnd.oasis.opendocument.formula-template", 50, "*.otf", FALSE>>,
    <<"application/vnd.oasis.opendocument.graphics", 50, "*.odg", FALSE>>,
    <<"application/vnd.oasis.opendocument.graphics-flat-xml", 50, "*.fodg", FALSE>>,
    <<"application/vnd.oasis.opendocument.graphics-template", 50, "*.otg", FALSE>>,
    <<"application/vnd.oasis.opendocument.image", 50, "*.odi", FALSE>>,
    <<"application/vnd.oasis.opendocument.presentation", 50, "*.odp", FALSE>>,
    <<"application/vnd.oasis.opendocument.presentation-flat-xml", 50, "*.fodp", FALSE>>,
    <<"application/vnd.oasis.opendocument.presentation-template", 50, "*.otp", FALSE>>,
    <<"application/vnd.oasis.opendocument.spreadsheet", 50, "*.ods", FALSE>>,
    <<"application/vnd.oasis.opendocument.spreadsheet-flat-xml", 50, "*.fods", FALSE>>,
    <<"application/vnd.oasis.opendocument.spreadsheet-template", 50, "*.ots", FALSE>>,
    <<"application/vnd.oasis.opendocument.text", 50, "*.odt", FALSE>>,
    <<"application/vnd.oasis.opendocument.text-flat-xml", 50, "*.fodt", FALSE>>,
    <<"application/vnd.oasis.opendocument.text-master", 50, "*.odm", FALSE>>,
    <<"application/vnd.oasis.opendocument.text-template", 50, "*.ott", FALSE>>,
    <<"application/vnd.oasis.opendocument.text-web", 50, "*.oth", FALSE>>,
    <<"application/vnd.openofficeorg.extension", 50, "*.oxt", FALSE>>,
    <<"application/vnd.openxmlformats-officedocument.presentationml.presentation", 50, "*.pptx", FALSE>>,
    <<"application/vnd.openxmlformats-officedocument.presentationml.slide", 50, "*.sldx", FALSE>>,
    <<"application/vnd.openxmlformats-officedocument.presentationml.slideshow", 50, "*.ppsx", FALSE>>,
    <<"application/vnd.openxmlformats-officedocument.presentationml.template", 50, "*.potx", FALSE>>,
    <<"application/vnd.openxmlformats-officedocument.spreadsheetml.sheet", 50, "*.xlsx", FALSE>>,
    <<"application/vnd.openxmlformats-officedocument.spreadsheetml.template", 50, "*.xltx", FALSE>>,
    <<"application/vnd.openxmlformats-officedocument.wordprocessingml.document", 50, "*.docx", FALSE>>,
    <<"application/vnd.openxmlformats-officedocument.wordprocessingml.template", 50, "*.dotx", FALSE>>,
    <<"application/vnd.palm", 50, "*.oprc", FALSE>>,
    <<"application/vnd.palm", 50, "*.pdb", FALSE>>,
    <<"application/vnd.palm", 50, "*.pqa", FALSE>>,
    <<"application/vnd.palm", 50, "*.prc", FALSE>>,
    <<"application/vnd.rar", 50, "*.rar", FALSE>>,
    <<"application/vnd.rn-realmedia", 50, "*.rm", FALSE>>,
    <<"application/vnd.rn-realmedia", 50, "*.rmj", FALSE>>,
    <<"application/vnd.rn-realmedia", 50, "*.rmm", FALSE>>,
    <<"application/vnd.rn-realmedia", 50, "*.rms", FALSE>>,
    <<"application/vnd.rn-realmedia", 50, "*.rmvb", FALSE>>,
    <<"application/vnd.rn-realmedia", 50, "*.rmx", FALSE>>,
    <<"application/vnd.smaf", 50, "*.mmf", FALSE>>,
    <<"application/vnd.smaf", 50, "*.smaf", FALSE>>,
    <<"application/vnd.snap", 50, "*.snap", FALSE>>,
    <<"application/vnd.sqlite3", 50, "*.sqlite3", FALSE>>,
    <<"application/vnd.squashfs", 50, "*.sqsh", FALSE>>,
    <<"application/vnd.stardivision.calc", 50, "*.sdc", FALSE>>,
    <<"application/vnd.stardivision.chart", 50, "*.sds", FALSE>>,
    <<"application/vnd.stardivision.draw", 50, "*.sda", FALSE>>,
    <<"application/vnd.stardivision.impress", 50, "*.sdd", FALSE>>,
    <<"application/vnd.stardivision.impress", 50, "*.sdp", FALSE>>,
    <<"application/vnd.stardivision.mail", 50, "*.smd", FALSE>>,
    <<"application/vnd.stardivision.math", 50, "*.smf", FALSE>>,
    <<"application/vnd.stardivision.writer", 50, "*.sdw", FALSE>>,
    <<"application/vnd.stardivision.writer", 50, "*.sgl", FALSE>>,
    <<"application/vnd.stardivision.writer", 50, "*.vor", FALSE>>,
    <<"application/vnd.sun.xml.calc", 50, "*.sxc", FALSE>>,
    <<"application/vnd.sun.xml.calc.template", 50, "*.stc", FALSE>>,
    <<"application/vnd.sun.xml.draw", 50, "*.sxd", FALSE>>,
    <<"application/vnd.sun.xml.draw.template", 50, "*.std", FALSE>>,
    <<"application/vnd.sun.xml.impress", 50, "*.sxi", FALSE>>,
    <<"application/vnd.sun.xml.impress.template", 50, "*.sti", FALSE>>,
    <<"application/vnd.sun.xml.math", 50, "*.sxm", FALSE>>,
    <<"application/vnd.sun.xml.writer", 50, "*.sxw", FALSE>>,
    <<"application/vnd.sun.xml.writer.global", 50, "*.sxg", FALSE>>,
    <<"application/vnd.sun.xml.writer.template", 50, "*.stw", FALSE>>,
    <<"application/vnd.symbian.install", 50, "*.sis", FALSE>>,
    <<"application/vnd.tcpdump.pcap", 50, "*.cap", FALSE>>,
    <<"application/vnd.tcpdump.pcap", 50, "*.dmp", FALSE>>,
    <<"application/vnd.tcpdump.pcap", 50, "*.pcap", FALSE>>,
    <<"application/vnd.visio", 50, "*.vsd", FALSE>>,
    <<"application/vnd.visio", 50, "*.vss", FALSE>>,
    <<"application/vnd.visio", 50, "*.vst", FALSE>>,
    <<"application/vnd.visio", 50, "*.vsw", FALSE>>,
    <<"application/vnd.wordperfect", 50, "*.wp", FALSE>>,
    <<"application/vnd.wordperfect", 50, "*.wp4", FALSE>>,
    <<"application/vnd.wordperfect", 50, "*.wp5", FALSE>>,
    <<"application/vnd.wordperfect", 50, "*.wp6", FALSE>>,
    <<"application/vnd.wordperfect", 50, "*.wpd", FALSE>>,
    <<"application/vnd.wordperfect", 50, "*.wpp", FALSE>>,
    <<"application/vnd.youtube.yt", 50, "*.yt", FALSE>>,
    <<"application/winhlp", 50, "*.hlp", FALSE>>,
    <<"application/x-7z-compressed", 50, "*.7z", FALSE>>,
    <<"application/x-7z-compressed", 50, "*.7z.001", FALSE>>,
    <<"application/x-abiword", 50, "*.abw", FALSE>>,
    <<"application/x-abiword", 50, "*.abw.crashed", FALSE>>,
    <<"application/x-abiword", 50, "*.abw.gz", FALSE>>,
    <<"application/x-abiword", 50, "*.zabw", FALSE>>,
    <<"application/x-ace", 50, "*.ace", FALSE>>,
    <<"application/x-alz", 50, "*.alz", FALSE>>,
    <<"application/x-amiga-disk-format", 50, "*.adf", FALSE>>,
    <<"application/x-amipro", 50, "*.sam", FALSE>>,
    <<"application/x-aportisdoc", 50, "*.pdb", FALSE>>,
    <<"application/x-aportisdoc", 50, "*.pdc", FALSE>>,
    <<"application/x-apple-diskimage", 50, "*.dmg", FALSE>>,
    <<"application/x-apple-systemprofiler+xml", 40, "*.spx", FALSE>>,
    <<"application/x-appleworks-document", 50, "*.cwk", FALSE>>,
    <<"application/x-applix-spreadsheet", 50, "*.as", FALSE>>,
    <<"application/x-applix-word", 50, "*.aw", FALSE>>,
    <<"application/x-archive", 50, "*.a", FALSE>>,
    <<"application/x-archive", 50, "*.ar", FALSE>>,
    <<"application/x-arj", 50, "*.arj", FALSE>>,
    <<"application/x-asar", 50, "*.asar", FALSE>>,
    <<"application/x-asp", 50, "*.asp", FALSE>>,
    <<"application/x-atari-2600-rom", 50, "*.a26", FALSE>>,
    <<"application/x-atari-7800-rom", 50, "*.a78", FALSE>>,
    <<"application/x-atari-lynx-rom", 50, "*.lnx", FALSE>>,
    <<"application/x-awk", 50, "*.awk", FALSE>>,
    <<"application/x-bcpio", 50, "*.bcpio", FALSE>>,
    <<"application/x-bittorrent", 50, "*.torrent", FALSE>>,
    <<"application/x-blender", 50, "*.blend", FALSE>>,
    <<"application/x-blender", 50, "*.blender", FALSE>>,
    <<"application/x-bps-patch", 50, "*.bps", FALSE>>,
    <<"application/x-bsdiff", 50, "*.bsdiff", FALSE>>,
    <<"application/x-bzdvi", 50, "*.dvi.bz2", FALSE>>,
    <<"application/x-bzip", 50, "*.bz", FALSE>>,
    <<"application/x-bzip", 50, "*.bz2", FALSE>>,
    <<"application/x-bzip-compressed-tar", 50, "*.tar.bz", FALSE>>,
    <<"application/x-bzip-compressed-tar", 50, "*.tar.bz2", FALSE>>,
    <<"application/x-bzip-compressed-tar", 50, "*.tb2", FALSE>>,
    <<"application/x-bzip-compressed-tar", 50, "*.tbz", FALSE>>,
    <<"application/x-bzip-compressed-tar", 50, "*.tbz2", FALSE>>,
    <<"application/x-bzpdf", 50, "*.pdf.bz2", FALSE>>,
    <<"application/x-bzpostscript", 50, "*.ps.bz2", FALSE>>,
    <<"application/x-cb7", 50, "*.cb7", FALSE>>,
    <<"application/x-cbt", 50, "*.cbt", FALSE>>,
    <<"application/x-ccmx", 50, "*.ccmx", FALSE>>,
    <<"application/x-cd-image", 80, "*.iso", FALSE>>,
    <<"application/x-cd-image", 50, "*.iso9660", FALSE>>,
    <<"application/x-cdrdao-toc", 50, "*.toc", FALSE>>,
    <<"application/x-cisco-vpn-settings", 50, "*.pcf", FALSE>>,
    <<"application/x-compress", 50, "*.z", FALSE>>,
    <<"application/x-compressed-iso", 50, "*.cso", FALSE>>,
    <<"application/x-compressed-tar", 50, "*.tar.gz", FALSE>>,
    <<"application/x-compressed-tar", 50, "*.tgz", FALSE>>,
    <<"application/x-core", 50, "core", TRUE>>,
    <<"application/x-cpio", 50, "*.cpio", FALSE>>,
    <<"application/x-cpio-compressed", 50, "*.cpio.gz", FALSE>>,
    <<"application/x-csh", 50, "*.csh", FALSE>>,
    <<"application/x-cue", 50, "*.cue", FALSE>>,
    <<"application/x-dar", 50, "*.dar", FALSE>>,
    <<"application/x-dbf", 50, "*.dbf", FALSE>>,
    <<"application/x-designer", 50, "*.ui", FALSE>>,
    <<"application/x-desktop", 50, "*.desktop", FALSE>>,
    <<"application/x-desktop", 50, "*.kdelnk", FALSE>>,
    <<"application/x-dia-diagram", 50, "*.dia", FALSE>>,
    <<"application/x-dia-shape", 50, "*.shape", FALSE>>,
    <<"application/x-discjuggler-cd-image", 50, "*.cdi", FALSE>>,
    <<"application/x-docbook+xml", 50, "*.dbk", FALSE>>,
    <<"application/x-docbook+xml", 50, "*.docbook", FALSE>>,
    <<"application/x-doom-wad", 80, "*.wad", FALSE>>,
    <<"application/x-dreamcast-rom", 50, "*.iso", FALSE>>,
    <<"application/x-dvi", 50, "*.dvi", FALSE>>,
    <<"application/x-e-theme", 50, "*.etheme", FALSE>>,
    <<"application/x-egon", 50, "*.egon", FALSE>>,
    <<"application/x-fds-disk", 50, "*.fds", FALSE>>,
    <<"application/x-fictionbook+xml", 50, "*.fb2", FALSE>>,
    <<"application/x-fluid", 50, "*.fl", FALSE>>,
    <<"application/x-font-afm", 50, "*.afm", FALSE>>,
    <<"application/x-font-bdf", 50, "*.bdf", FALSE>>,
    <<"application/x-font-linux-psf", 50, "*.psf", FALSE>>,
    <<"application/x-font-pcf", 50, "*.pcf", FALSE>>,
    <<"application/x-font-pcf", 50, "*.pcf.gz", FALSE>>,
    <<"application/x-font-pcf", 50, "*.pcf.z", FALSE>>,
    <<"application/x-font-speedo", 50, "*.spd", FALSE>>,
    <<"application/x-font-ttx", 50, "*.ttx", FALSE>>,
    <<"application/x-font-type1", 50, "*.gsf", FALSE>>,
    <<"application/x-font-type1", 50, "*.pfa", FALSE>>,
    <<"application/x-font-type1", 50, "*.pfb", FALSE>>,
    <<"application/x-gameboy-color-rom", 50, "*.cgb", FALSE>>,
    <<"application/x-gameboy-color-rom", 50, "*.gbc", FALSE>>,
    <<"application/x-gameboy-rom", 50, "*.gb", FALSE>>,
    <<"application/x-gameboy-rom", 50, "*.sgb", FALSE>>,
    <<"application/x-gamecube-rom", 50, "*.iso", FALSE>>,
    <<"application/x-gamegear-rom", 50, "*.gg", FALSE>>,
    <<"application/x-gba-rom", 50, "*.agb", FALSE>>,
    <<"application/x-gba-rom", 50, "*.gba", FALSE>>,
    <<"application/x-gd-rom-cue", 50, "*.gdi", FALSE>>,
    <<"application/x-gdscript", 50, "*.gd", FALSE>>,
    <<"application/x-gedcom", 50, "*.ged", FALSE>>,
    <<"application/x-gedcom", 50, "*.gedcom", FALSE>>,
    <<"application/x-genesis-32x-rom", 50, "*.32x", FALSE>>,
    <<"application/x-genesis-32x-rom", 50, "*.mdx", FALSE>>,
    <<"application/x-genesis-rom", 50, "*.gen", FALSE>>,
    <<"application/x-genesis-rom", 50, "*.sgd", FALSE>>,
    <<"application/x-genesis-rom", 50, "*.smd", FALSE>>,
    <<"application/x-gettext-translation", 50, "*.gmo", FALSE>>,
    <<"application/x-gettext-translation", 50, "*.mo", FALSE>>,
    <<"application/x-glade", 50, "*.glade", FALSE>>,
    <<"application/x-gnucash", 50, "*.gnc", FALSE>>,
    <<"application/x-gnucash", 50, "*.gnucash", FALSE>>,
    <<"application/x-gnucash", 50, "*.xac", FALSE>>,
    <<"application/x-gnumeric", 50, "*.gnumeric", FALSE>>,
    <<"application/x-gnuplot", 50, "*.gnuplot", FALSE>>,
    <<"application/x-gnuplot", 50, "*.gp", FALSE>>,
    <<"application/x-gnuplot", 50, "*.gplt", FALSE>>,
    <<"application/x-go-sgf", 50, "*.sgf", FALSE>>,
    <<"application/x-godot-project", 50, "project.godot", FALSE>>,
    <<"application/x-godot-resource", 50, "*.res", FALSE>>,
    <<"application/x-godot-resource", 50, "*.tres", FALSE>>,
    <<"application/x-godot-scene", 50, "*.escn", FALSE>>,
    <<"application/x-godot-scene", 50, "*.scn", FALSE>>,
    <<"application/x-godot-scene", 50, "*.tscn", FALSE>>,
    <<"application/x-godot-shader", 50, "*.gdshader", FALSE>>,
    <<"application/x-graphite", 50, "*.gra", FALSE>>,
    <<"application/x-gtk-builder", 50, "*.ui", FALSE>>,
    <<"application/x-gz-font-linux-psf", 50, "*.psf.gz", FALSE>>,
    <<"application/x-gzdvi", 50, "*.dvi.gz", FALSE>>,
    <<"application/x-gzpdf", 50, "*.pdf.gz", FALSE>>,
    <<"application/x-gzpostscript", 50, "*.ps.gz", FALSE>>,
    <<"application/x-hdf", 50, "*.h4", FALSE>>,
    <<"application/x-hdf", 50, "*.h5", FALSE>>,
    <<"application/x-hdf", 50, "*.hdf", FALSE>>,
    <<"application/x-hdf", 50, "*.hdf4", FALSE>>,
    <<"application/x-hdf", 50, "*.hdf5", FALSE>>,
    <<"application/x-hfe-floppy-image", 50, "*.hfe", FALSE>>,
    <<"application/x-hwp", 50, "*.hwp", FALSE>>,
    <<"application/x-hwt", 50, "*.hwt", FALSE>>,
    <<"application/x-ica", 50, "*.ica", FALSE>>,
    <<"application/x-ips-patch", 50, "*.ips", FALSE>>,
    <<"application/x-ipynb+json", 50, "*.ipynb", FALSE>>,
    <<"application/x-iso9660-appimage", 50, "*.appimage", FALSE>>,
    <<"application/x-it87", 50, "*.it87", FALSE>>,
    <<"application/x-java", 50, "*.class", FALSE>>,
    <<"application/x-java-archive", 50, "*.jar", FALSE>>,
    <<"application/x-java-jce-keystore", 50, "*.jceks", FALSE>>,
    <<"application/x-java-jnlp-file", 50, "*.jnlp", FALSE>>,
    <<"application/x-java-keystore", 50, "*.jks", FALSE>>,
    <<"application/x-java-keystore", 50, "*.ks", FALSE>>,
    <<"application/x-java-keystore", 50, "cacerts", FALSE>>,
    <<"application/x-java-pack200", 50, "*.pack", FALSE>>,
    <<"application/x-jbuilder-project", 50, "*.jpr", FALSE>>,
    <<"application/x-jbuilder-project", 50, "*.jpx", FALSE>>,
    <<"application/x-karbon", 50, "*.karbon", FALSE>>,
    <<"application/x-kchart", 50, "*.chrt", FALSE>>,
    <<"application/x-kexi-connectiondata", 50, "*.kexic", FALSE>>,
    <<"application/x-kexiproject-shortcut", 50, "*.kexis", FALSE>>,
    <<"application/x-kexiproject-sqlite2", 50, "*.kexi", FALSE>>,
    <<"application/x-kexiproject-sqlite3", 50, "*.kexi", FALSE>>,
    <<"application/x-kformula", 50, "*.kfo", FALSE>>,
    <<"application/x-killustrator", 50, "*.kil", FALSE>>,
    <<"application/x-kivio", 50, "*.flw", FALSE>>,
    <<"application/x-kontour", 50, "*.kon", FALSE>>,
    <<"application/x-kpovmodeler", 50, "*.kpm", FALSE>>,
    <<"application/x-kpresenter", 50, "*.kpr", FALSE>>,
    <<"application/x-kpresenter", 50, "*.kpt", FALSE>>,
    <<"application/x-krita", 50, "*.kra", FALSE>>,
    <<"application/x-krita", 50, "*.krz", FALSE>>,
    <<"application/x-kspread", 50, "*.ksp", FALSE>>,
    <<"application/x-kugar", 50, "*.kud", FALSE>>,
    <<"application/x-kword", 50, "*.kwd", FALSE>>,
    <<"application/x-kword", 50, "*.kwt", FALSE>>,
    <<"application/x-lha", 50, "*.lha", FALSE>>,
    <<"application/x-lha", 50, "*.lzh", FALSE>>,
    <<"application/x-lhz", 50, "*.lhz", FALSE>>,
    <<"application/x-lrzip", 50, "*.lrz", FALSE>>,
    <<"application/x-lrzip-compressed-tar", 50, "*.tar.lrz", FALSE>>,
    <<"application/x-lrzip-compressed-tar", 50, "*.tlrz", FALSE>>,
    <<"application/x-lyx", 50, "*.lyx", FALSE>>,
    <<"application/x-lz4", 50, "*.lz4", FALSE>>,
    <<"application/x-lz4-compressed-tar", 50, "*.tar.lz4", FALSE>>,
    <<"application/x-lzip", 50, "*.lz", FALSE>>,
    <<"application/x-lzip-compressed-tar", 50, "*.tar.lz", FALSE>>,
    <<"application/x-lzma", 50, "*.lzma", FALSE>>,
    <<"application/x-lzma-compressed-tar", 50, "*.tar.lzma", FALSE>>,
    <<"application/x-lzma-compressed-tar", 50, "*.tlz", FALSE>>,
    <<"application/x-lzop", 50, "*.lzo", FALSE>>,
    <<"application/x-lzpdf", 50, "*.pdf.lz", FALSE>>,
    <<"application/x-m4", 50, "*.m4", FALSE>>,
    <<"application/x-magicpoint", 50, "*.mgp", FALSE>>,
    <<"application/x-mame-chd", 50, "*.chd", FALSE>>,
    <<"application/x-markaby", 50, "*.mab", FALSE>>,
    <<"application/x-mif", 50, "*.mif", FALSE>>,
    <<"application/x-mimearchive", 50, "*.mht", FALSE>>,
    <<"application/x-mimearchive", 50, "*.mhtml", FALSE>>,
    <<"application/x-mobipocket-ebook", 50, "*.mobi", FALSE>>,
    <<"application/x-mobipocket-ebook", 50, "*.prc", FALSE>>,
    <<"application/x-ms-dos-executable", 50, "*.exe", FALSE>>,
    <<"application/x-ms-wim", 50, "*.swm", FALSE>>,
    <<"application/x-ms-wim", 50, "*.wim", FALSE>>,
    <<"application/x-msi", 50, "*.msi", FALSE>>,
    <<"application/x-mswinurl", 50, "*.url", FALSE>>,
    <<"application/x-mswrite", 50, "*.wri", FALSE>>,
    <<"application/x-msx-rom", 50, "*.msx", FALSE>>,
    <<"application/x-n64-rom", 50, "*.n64", FALSE>>,
    <<"application/x-n64-rom", 50, "*.v64", FALSE>>,
    <<"application/x-n64-rom", 50, "*.z64", FALSE>>,
    <<"application/x-navi-animation", 50, "*.ani", FALSE>>,
    <<"application/x-neo-geo-pocket-color-rom", 50, "*.ngc", FALSE>>,
    <<"application/x-neo-geo-pocket-rom", 50, "*.ngp", FALSE>>,
    <<"application/x-nes-rom", 50, "*.nes", FALSE>>,
    <<"application/x-nes-rom", 50, "*.nez", FALSE>>,
    <<"application/x-nes-rom", 50, "*.unf", FALSE>>,
    <<"application/x-nes-rom", 50, "*.unif", FALSE>>,
    <<"application/x-netcdf", 50, "*.cdf", FALSE>>,
    <<"application/x-netcdf", 50, "*.nc", FALSE>>,
    <<"application/x-netshow-channel", 50, "*.nsc", FALSE>>,
    <<"application/x-nintendo-3ds-executable", 50, "*.3dsx", FALSE>>,
    <<"application/x-nintendo-3ds-rom", 50, "*.3ds", FALSE>>,
    <<"application/x-nintendo-3ds-rom", 50, "*.cci", FALSE>>,
    <<"application/x-nintendo-ds-rom", 50, "*.nds", FALSE>>,
    <<"application/x-nzb", 50, "*.nzb", FALSE>>,
    <<"application/x-object", 40, "*.mod", FALSE>>,
    <<"application/x-object", 50, "*.o", FALSE>>,
    <<"application/x-oleo", 50, "*.oleo", FALSE>>,
    <<"application/x-openzim", 50, "*.zim", FALSE>>,
    <<"application/x-pagemaker", 50, "*.p65", FALSE>>,
    <<"application/x-pagemaker", 50, "*.pm", FALSE>>,
    <<"application/x-pagemaker", 50, "*.pm6", FALSE>>,
    <<"application/x-pagemaker", 50, "*.pmd", FALSE>>,
    <<"application/x-pak", 50, "*.pak", FALSE>>,
    <<"application/x-par2", 50, "*.par2", FALSE>>,
    <<"application/x-partial-download", 50, "*.crdownload", FALSE>>,
    <<"application/x-partial-download", 50, "*.part", FALSE>>,
    <<"application/x-partial-download", 50, "*.wkdownload", FALSE>>,
    <<"application/x-pc-engine-rom", 50, "*.pce", FALSE>>,
    <<"application/x-perl", 50, "*.al", FALSE>>,
    <<"application/x-perl", 50, "*.perl", FALSE>>,
    <<"application/x-perl", 50, "*.pl", FALSE>>,
    <<"application/x-perl", 50, "*.pm", FALSE>>,
    <<"application/x-perl", 50, "*.pod", FALSE>>,
    <<"application/x-perl", 10, "*.t", FALSE>>,
    <<"application/x-php", 50, "*.php", FALSE>>,
    <<"application/x-php", 50, "*.php3", FALSE>>,
    <<"application/x-php", 50, "*.php4", FALSE>>,
    <<"application/x-php", 50, "*.php5", FALSE>>,
    <<"application/x-php", 50, "*.phps", FALSE>>,
    <<"application/x-pkcs7-certificates", 50, "*.p7b", FALSE>>,
    <<"application/x-pkcs7-certificates", 50, "*.spc", FALSE>>,
    <<"application/x-planperfect", 50, "*.pln", FALSE>>,
    <<"application/x-pocket-word", 50, "*.psw", FALSE>>,
    <<"application/x-profile", 50, "gmon.out", FALSE>>,
    <<"application/x-pw", 50, "*.pw", FALSE>>,
    <<"application/x-pyspread-bz-spreadsheet", 50, "*.pys", FALSE>>,
    <<"application/x-pyspread-spreadsheet", 50, "*.pysu", FALSE>>,
    <<"application/x-python-bytecode", 50, "*.pyc", FALSE>>,
    <<"application/x-python-bytecode", 50, "*.pyo", FALSE>>,
    <<"application/x-qed-disk", 50, "*.qed", FALSE>>,
    <<"application/x-qemu-disk", 50, "*.qcow", FALSE>>,
    <<"application/x-qemu-disk", 50, "*.qcow2", FALSE>>,
    <<"application/x-qpress", 50, "*.qp", FALSE>>,
    <<"application/x-qtiplot", 50, "*.qti", FALSE>>,
    <<"application/x-qtiplot", 50, "*.qti.gz", FALSE>>,
    <<"application/x-quattropro", 50, "*.wb1", FALSE>>,
    <<"application/x-quattropro", 50, "*.wb2", FALSE>>,
    <<"application/x-quattropro", 50, "*.wb3", FALSE>>,
    <<"application/x-quicktime-media-link", 50, "*.qtl", FALSE>>,
    <<"application/x-qw", 50, "*.qif", FALSE>>,
    <<"application/x-raw-disk-image", 50, "*.img", FALSE>>,
    <<"application/x-raw-disk-image", 50, "*.raw-disk-image", FALSE>>,
    <<"application/x-raw-disk-image-xz-compressed", 50, "*.img.xz", FALSE>>,
    <<"application/x-raw-disk-image-xz-compressed", 50, "*.raw-disk-image.xz", FALSE>>,
    <<"application/x-raw-floppy-disk-image", 50, "*.fd", FALSE>>,
    <<"application/x-raw-floppy-disk-image", 50, "*.qd", FALSE>>,
    <<"application/x-rpm", 50, "*.rpm", FALSE>>,
    <<"application/x-ruby", 50, "*.rb", FALSE>>,
    <<"application/x-sami", 50, "*.sami", FALSE>>,
    <<"application/x-sami", 50, "*.smi", FALSE>>,
    <<"application/x-saturn-rom", 50, "*.iso", FALSE>>,
    <<"application/x-sega-cd-rom", 50, "*.iso", FALSE>>,
    <<"application/x-sega-pico-rom", 50, "*.iso", FALSE>>,
    <<"application/x-sg1000-rom", 50, "*.sg", FALSE>>,
    <<"application/x-shar", 50, "*.shar", FALSE>>,
    <<"application/x-shared-library-la", 50, "*.la", FALSE>>,
    <<"application/x-sharedlib", 50, "*.so", FALSE>>,
    <<"application/x-sharedlib", 60, "*.so.[0-9]*", FALSE>>,
    <<"application/x-shellscript", 50, "*.sh", FALSE>>,
    <<"application/x-shorten", 50, "*.shn", FALSE>>,
    <<"application/x-siag", 50, "*.siag", FALSE>>,
    <<"application/x-sms-rom", 50, "*.sms", FALSE>>,
    <<"application/x-source-rpm", 50, "*.spm", FALSE>>,
    <<"application/x-source-rpm", 50, "*.src.rpm", FALSE>>,
    <<"application/x-spss-por", 50, "*.por", FALSE>>,
    <<"application/x-spss-sav", 50, "*.sav", FALSE>>,
    <<"application/x-spss-sav", 50, "*.zsav", FALSE>>,
    <<"application/x-sqlite2", 50, "*.sqlite2", FALSE>>,
    <<"application/x-stuffit", 50, "*.sit", FALSE>>,
    <<"application/x-subrip", 50, "*.srt", FALSE>>,
    <<"application/x-sv4cpio", 50, "*.sv4cpio", FALSE>>,
    <<"application/x-sv4crc", 50, "*.sv4crc", FALSE>>,
    <<"application/x-t602", 50, "*.602", FALSE>>,
    <<"application/x-tar", 50, "*.gem", FALSE>>,
    <<"application/x-tar", 50, "*.gtar", FALSE>>,
    <<"application/x-tar", 50, "*.tar", FALSE>>,
    <<"application/x-tarz", 50, "*.tar.z", FALSE>>,
    <<"application/x-tarz", 50, "*.taz", FALSE>>,
    <<"application/x-tex-gf", 50, "*.gf", FALSE>>,
    <<"application/x-tex-pk", 50, "*.pk", FALSE>>,
    <<"application/x-tgif", 50, "*.obj", FALSE>>,
    <<"application/x-theme", 50, "*.theme", FALSE>>,
    <<"application/x-thomson-cartridge-memo7", 50, "*.m7", FALSE>>,
    <<"application/x-thomson-cassette", 50, "*.k7", FALSE>>,
    <<"application/x-thomson-sap-image", 50, "*.sap", FALSE>>,
    <<"application/x-trash", 50, "*%", FALSE>>,
    <<"application/x-trash", 50, "*.bak", FALSE>>,
    <<"application/x-trash", 50, "*.old", FALSE>>,
    <<"application/x-trash", 50, "*.sik", FALSE>>,
    <<"application/x-trash", 50, "*~", FALSE>>,
    <<"application/x-troff-man", 50, "*.[1-9]", FALSE>>,
    <<"application/x-troff-man", 50, "*.man", FALSE>>,
    <<"application/x-tzo", 50, "*.tar.lzo", FALSE>>,
    <<"application/x-tzo", 50, "*.tzo", FALSE>>,
    <<"application/x-ufraw", 50, "*.ufraw", FALSE>>,
    <<"application/x-ustar", 50, "*.ustar", FALSE>>,
    <<"application/x-vdi-disk", 50, "*.vdi", FALSE>>,
    <<"application/x-vhd-disk", 50, "*.vhd", FALSE>>,
    <<"application/x-vhd-disk", 50, "*.vpc", FALSE>>,
    <<"application/x-vhdx-disk", 50, "*.vhdx", FALSE>>,
    <<"application/x-virtual-boy-rom", 50, "*.vb", FALSE>>,
    <<"application/x-vmdk-disk", 50, "*.vmdk", FALSE>>,
    <<"application/x-wais-source", 50, "*.src", FALSE>>,
    <<"application/x-wii-rom", 50, "*.iso", FALSE>>,
    <<"application/x-wii-wad", 50, "*.wad", FALSE>>,
    <<"application/x-windows-themepack", 50, "*.themepack", FALSE>>,
    <<"application/x-wonderswan-color-rom", 50, "*.wsc", FALSE>>,
    <<"application/x-wonderswan-rom", 50, "*.ws", FALSE>>,
    <<"application/x-wpg", 50, "*.wpg", FALSE>>,
    <<"application/x-wwf", 50, "*.wwf", FALSE>>,
    <<"application/x-x509-ca-cert", 50, "*.cert", FALSE>>,
    <<"application/x-x509-ca-cert", 50, "*.crt", FALSE>>,
    <<"application/x-x509-ca-cert", 50, "*.der", FALSE>>,
    <<"application/x-x509-ca-cert", 50, "*.pem", FALSE>>,
    <<"application/x-xar", 50, "*.pkg", FALSE>>,
    <<"application/x-xar", 50, "*.xar", FALSE>>,
    <<"application/x-xbel", 50, "*.xbel", FALSE>>,
    <<"application/x-xpinstall", 50, "*.xpi", FALSE>>,
    <<"application/x-xz", 50, "*.xz", FALSE>>,
    <<"application/x-xz-compressed-tar", 50, "*.tar.xz", FALSE>>,
    <<"application/x-xz-compressed-tar", 50, "*.txz", FALSE>>,
    <<"application/x-xzpdf", 50, "*.pdf.xz", FALSE>>,
    <<"application/x-yaml", 50, "*.yaml", FALSE>>,
    <<"application/x-yaml", 50, "*.yml", FALSE>>,
    <<"application/x-zip-compressed-fb2", 50, "*.fb2.zip", FALSE>>,
    <<"application/x-zoo", 50, "*.zoo", FALSE>>,
    <<"application/x-zstd-compressed-tar", 50, "*.tar.zst", FALSE>>,
    <<"application/x-zstd-compressed-tar", 50, "*.tzst", FALSE>>,
    <<"application/xhtml+xml", 50, "*.htm", FALSE>>,
    <<"application/xhtml+xml", 50, "*.html", FALSE>>,
    <<"application/xhtml+xml", 50, "*.xht", FALSE>>,
    <<"application/xhtml+xml", 50, "*.xhtml", FALSE>>,
    <<"application/xliff+xml", 50, "*.xlf", FALSE>>,
    <<"application/xliff+xml", 50, "*.xliff", FALSE>>,
    <<"application/xml", 50, "*.rng", FALSE>>,
    <<"application/xml", 50, "*.xbl", FALSE>>,
    <<"application/xml", 50, "*.xml", FALSE>>,
    <<"application/xml", 50, "*.xsd", FALSE>>,
    <<"application/xml-dtd", 50, "*.dtd", FALSE>>,
    <<"application/xml-external-parsed-entity", 50, "*.ent", FALSE>>,
    <<"application/xslt+xml", 50, "*.xsl", FALSE>>,
    <<"application/xslt+xml", 50, "*.xslt", FALSE>>,
    <<"application/xspf+xml", 50, "*.xspf", FALSE>>,
    <<"application/zip", 50, "*.zip", FALSE>>,
    <<"application/zip", 50, "*.zipx", FALSE>>,
    <<"application/zlib", 50, "*.zz", FALSE>>,
    <<"application/zstd", 50, "*.zst", FALSE>>,
    <<"audio/AMR", 50, "*.amr", FALSE>>,
    <<"audio/AMR-WB", 50, "*.awb", FALSE>>,
    <<"audio/aac", 50, "*.aac", FALSE>>, <<"audio/aac", 50, "*.adts", FALSE>>,
    <<"audio/aac", 10, "*.ass", FALSE>>, <<"audio/ac3", 50, "*.ac3", FALSE>>,
    <<"audio/annodex", 50, "*.axa", FALSE>>,
    <<"audio/basic", 50, "*.au", FALSE>>,
    <<"audio/basic", 50, "*.snd", FALSE>>,
    <<"audio/flac", 50, "*.flac", FALSE>>,
    <<"audio/midi", 50, "*.kar", FALSE>>, <<"audio/midi", 50, "*.mid", FALSE>>,
    <<"audio/midi", 50, "*.midi", FALSE>>,
    <<"audio/mobile-xmf", 50, "*.mxmf", FALSE>>,
    <<"audio/mp2", 50, "*.mp2", FALSE>>, <<"audio/mp4", 50, "*.f4a", FALSE>>,
    <<"audio/mp4", 50, "*.m4a", FALSE>>, <<"audio/mpeg", 50, "*.mp3", FALSE>>,
    <<"audio/mpeg", 50, "*.mpga", FALSE>>, <<"audio/ogg", 50, "*.oga", FALSE>>,
    <<"audio/ogg", 50, "*.ogg", FALSE>>, <<"audio/ogg", 50, "*.opus", FALSE>>,
    <<"audio/prs.sid", 50, "*.psid", FALSE>>,
    <<"audio/prs.sid", 50, "*.sid", FALSE>>,
    <<"audio/usac", 50, "*.loas", FALSE>>,
    <<"audio/usac", 50, "*.xhe", FALSE>>,
    <<"audio/vnd.audible.aax", 50, "*.aax", FALSE>>,
    <<"audio/vnd.dts", 50, "*.dts", FALSE>>,
    <<"audio/vnd.dts.hd", 50, "*.dtshd", FALSE>>,
    <<"audio/vnd.rn-realaudio", 50, "*.ra", FALSE>>,
    <<"audio/vnd.rn-realaudio", 50, "*.rax", FALSE>>,
    <<"audio/x-aifc", 50, "*.aifc", FALSE>>,
    <<"audio/x-aifc", 50, "*.aiffc", FALSE>>,
    <<"audio/x-aiff", 50, "*.aif", FALSE>>,
    <<"audio/x-aiff", 50, "*.aiff", FALSE>>,
    <<"audio/x-amzxml", 50, "*.amz", FALSE>>,
    <<"audio/x-ape", 50, "*.ape", FALSE>>,
    <<"audio/x-dff", 50, "*.dff", FALSE>>,
    <<"audio/x-dsf", 50, "*.dsf", FALSE>>,
    <<"audio/x-flac+ogg", 50, "*.oga", FALSE>>,
    <<"audio/x-flac+ogg", 50, "*.ogg", FALSE>>,
    <<"audio/x-gsm", 50, "*.gsm", FALSE>>,
    <<"audio/x-iriver-pla", 50, "*.pla", FALSE>>,
    <<"audio/x-it", 50, "*.it", FALSE>>, <<"audio/x-m4b", 50, "*.f4b", FALSE>>,
    <<"audio/x-m4b", 50, "*.m4b", FALSE>>,
    <<"audio/x-m4r", 50, "*.m4r", FALSE>>,
    <<"audio/x-matroska", 50, "*.mka", FALSE>>,
    <<"audio/x-minipsf", 50, "*.minipsf", FALSE>>,
    <<"audio/x-mo3", 50, "*.mo3", FALSE>>,
    <<"audio/x-mod", 50, "*.669", FALSE>>,
    <<"audio/x-mod", 50, "*.m15", FALSE>>,
    <<"audio/x-mod", 50, "*.med", FALSE>>,
    <<"audio/x-mod", 50, "*.mod", FALSE>>,
    <<"audio/x-mod", 50, "*.mtm", FALSE>>,
    <<"audio/x-mod", 50, "*.ult", FALSE>>,
    <<"audio/x-mod", 50, "*.uni", FALSE>>,
    <<"audio/x-mpegurl", 50, "*.m3u", FALSE>>,
    <<"audio/x-mpegurl", 50, "*.m3u8", FALSE>>,
    <<"audio/x-mpegurl", 50, "*.vlc", FALSE>>,
    <<"audio/x-ms-asx", 50, "*.asx", FALSE>>,
    <<"audio/x-ms-asx", 50, "*.wax", FALSE>>,
    <<"audio/x-ms-asx", 50, "*.wmx", FALSE>>,
    <<"audio/x-ms-asx", 50, "*.wvx", FALSE>>,
    <<"audio/x-ms-wma", 50, "*.wma", FALSE>>,
    <<"audio/x-musepack", 50, "*.mp+", FALSE>>,
    <<"audio/x-musepack", 50, "*.mpc", FALSE>>,
    <<"audio/x-musepack", 50, "*.mpp", FALSE>>,
    <<"audio/x-opus+ogg", 50, "*.opus", FALSE>>,
    <<"audio/x-pn-audibleaudio", 50, "*.aa", FALSE>>,
    <<"audio/x-psf", 50, "*.psf", FALSE>>,
    <<"audio/x-psflib", 50, "*.psflib", FALSE>>,
    <<"audio/x-s3m", 50, "*.s3m", FALSE>>,
    <<"audio/x-scpls", 50, "*.pls", FALSE>>,
    <<"audio/x-speex", 50, "*.spx", FALSE>>,
    <<"audio/x-speex+ogg", 50, "*.oga", FALSE>>,
    <<"audio/x-speex+ogg", 50, "*.ogg", FALSE>>,
    <<"audio/x-speex+ogg", 50, "*.spx", FALSE>>,
    <<"audio/x-stm", 50, "*.stm", FALSE>>,
    <<"audio/x-tta", 50, "*.tta", FALSE>>,
    <<"audio/x-voc", 50, "*.voc", FALSE>>,
    <<"audio/x-vorbis+ogg", 50, "*.oga", FALSE>>,
    <<"audio/x-vorbis+ogg", 50, "*.ogg", FALSE>>,
    <<"audio/x-wav", 50, "*.wav", FALSE>>,
    <<"audio/x-wavpack", 50, "*.wv", FALSE>>,
    <<"audio/x-wavpack", 50, "*.wvp", FALSE>>,
    <<"audio/x-wavpack-correction", 50, "*.wvc", FALSE>>,
    <<"audio/x-xi", 50, "*.xi", FALSE>>, <<"audio/x-xm", 50, "*.xm", FALSE>>,
    <<"audio/x-xmf", 50, "*.xmf", FALSE>>,
    <<"font/collection", 50, "*.ttc", FALSE>>,
    <<"font/otf", 50, "*.otf", FALSE>>, <<"font/ttf", 50, "*.ttf", FALSE>>,
    <<"font/woff", 50, "*.woff", FALSE>>,
    <<"font/woff2", 50, "*.woff2", FALSE>>,
    <<"image/astc", 50, "*.astc", FALSE>>,
    <<"image/avif", 50, "*.avif", FALSE>>,
    <<"image/avif", 50, "*.avifs", FALSE>>,
    <<"image/bmp", 50, "*.bmp", FALSE>>, <<"image/bmp", 50, "*.dib", FALSE>>,
    <<"image/cgm", 50, "*.cgm", FALSE>>, <<"image/emf", 50, "*.emf", FALSE>>,
    <<"image/g3fax", 50, "*.g3", FALSE>>, <<"image/gif", 50, "*.gif", FALSE>>,
    <<"image/heif", 50, "*.heic", FALSE>>,
    <<"image/heif", 50, "*.heif", FALSE>>,
    <<"image/heif", 50, "*.hif", FALSE>>, <<"image/ief", 50, "*.ief", FALSE>>,
    <<"image/jp2", 50, "*.jp2", FALSE>>, <<"image/jp2", 50, "*.jpg2", FALSE>>,
    <<"image/jpeg", 50, "*.jpe", FALSE>>,
    <<"image/jpeg", 50, "*.jpeg", FALSE>>,
    <<"image/jpeg", 50, "*.jpg", FALSE>>, <<"image/jpm", 50, "*.jpgm", FALSE>>,
    <<"image/jpm", 50, "*.jpm", FALSE>>, <<"image/jpx", 50, "*.jpf", FALSE>>,
    <<"image/jpx", 50, "*.jpx", FALSE>>, <<"image/jxl", 50, "*.jxl", FALSE>>,
    <<"image/ktx", 50, "*.ktx", FALSE>>, <<"image/ktx2", 50, "*.ktx2", FALSE>>,
    <<"image/openraster", 50, "*.ora", FALSE>>,
    <<"image/png", 50, "*.png", FALSE>>, <<"image/rle", 50, "*.rle", FALSE>>,
    <<"image/svg+xml", 50, "*.svg", FALSE>>,
    <<"image/svg+xml-compressed", 50, "*.svg.gz", FALSE>>,
    <<"image/svg+xml-compressed", 50, "*.svgz", FALSE>>,
    <<"image/tiff", 50, "*.tif", FALSE>>,
    <<"image/tiff", 50, "*.tiff", FALSE>>,
    <<"image/vnd.adobe.photoshop", 50, "*.psd", FALSE>>,
    <<"image/vnd.djvu", 50, "*.djv", FALSE>>,
    <<"image/vnd.djvu", 50, "*.djvu", FALSE>>,
    <<"image/vnd.djvu+multipage", 50, "*.djv", FALSE>>,
    <<"image/vnd.djvu+multipage", 50, "*.djvu", FALSE>>,
    <<"image/vnd.dwg", 50, "*.dwg", FALSE>>,
    <<"image/vnd.dxf", 50, "*.dxf", FALSE>>,
    <<"image/vnd.microsoft.icon", 50, "*.ico", FALSE>>,
    <<"image/vnd.ms-modi", 50, "*.mdi", FALSE>>,
    <<"image/vnd.rn-realpix", 50, "*.rp", FALSE>>,
    <<"image/vnd.wap.wbmp", 50, "*.wbmp", FALSE>>,
    <<"image/vnd.zbrush.pcx", 50, "*.pcx", FALSE>>,
    <<"image/webp", 50, "*.webp", FALSE>>, <<"image/wmf", 50, "*.wmf", FALSE>>,
    <<"image/x-3ds", 50, "*.3ds", FALSE>>,
    <<"image/x-adobe-dng", 50, "*.dng", FALSE>>,
    <<"image/x-applix-graphics", 50, "*.ag", FALSE>>,
    <<"image/x-bzeps", 50, "*.eps.bz2", FALSE>>,
    <<"image/x-bzeps", 50, "*.epsf.bz2", FALSE>>,
    <<"image/x-bzeps", 50, "*.epsi.bz2", FALSE>>,
    <<"image/x-canon-cr2", 50, "*.cr2", FALSE>>,
    <<"image/x-canon-cr3", 50, "*.cr3", FALSE>>,
    <<"image/x-canon-crw", 50, "*.crw", FALSE>>,
    <<"image/x-cmu-raster", 50, "*.ras", FALSE>>,
    <<"image/x-compressed-xcf", 50, "*.xcf.bz2", FALSE>>,
    <<"image/x-compressed-xcf", 50, "*.xcf.gz", FALSE>>,
    <<"image/x-dds", 50, "*.dds", FALSE>>,
    <<"image/x-eps", 50, "*.eps", FALSE>>,
    <<"image/x-eps", 50, "*.epsf", FALSE>>,
    <<"image/x-eps", 50, "*.epsi", FALSE>>,
    <<"image/x-exr", 50, "*.exr", FALSE>>,
    <<"image/x-fuji-raf", 50, "*.raf", FALSE>>,
    <<"image/x-gimp-gbr", 50, "*.gbr", FALSE>>,
    <<"image/x-gimp-gih", 50, "*.gih", FALSE>>,
    <<"image/x-gimp-pat", 50, "*.pat", FALSE>>,
    <<"image/x-gzeps", 50, "*.eps.gz", FALSE>>,
    <<"image/x-gzeps", 50, "*.epsf.gz", FALSE>>,
    <<"image/x-gzeps", 50, "*.epsi.gz", FALSE>>,
    <<"image/x-icns", 50, "*.icns", FALSE>>,
    <<"image/x-ilbm", 50, "*.iff", FALSE>>,
    <<"image/x-ilbm", 50, "*.ilbm", FALSE>>,
    <<"image/x-ilbm", 50, "*.lbm", FALSE>>,
    <<"image/x-jng", 50, "*.jng", FALSE>>,
    <<"image/x-jp2-codestream", 50, "*.j2c", FALSE>>,
    <<"image/x-jp2-codestream", 50, "*.j2k", FALSE>>,
    <<"image/x-jp2-codestream", 50, "*.jpc", FALSE>>,
    <<"image/x-kodak-dcr", 50, "*.dcr", FALSE>>,
    <<"image/x-kodak-k25", 50, "*.k25", FALSE>>,
    <<"image/x-kodak-kdc", 50, "*.kdc", FALSE>>,
    <<"image/x-lwo", 50, "*.lwo", FALSE>>,
    <<"image/x-lwo", 50, "*.lwob", FALSE>>,
    <<"image/x-lws", 50, "*.lws", FALSE>>,
    <<"image/x-macpaint", 50, "*.pntg", FALSE>>,
    <<"image/x-minolta-mrw", 50, "*.mrw", FALSE>>,
    <<"image/x-msod", 50, "*.msod", FALSE>>,
    <<"image/x-nikon-nef", 50, "*.nef", FALSE>>,
    <<"image/x-nikon-nrw", 50, "*.nrw", FALSE>>,
    <<"image/x-olympus-orf", 50, "*.orf", FALSE>>,
    <<"image/x-panasonic-rw", 50, "*.raw", FALSE>>,
    <<"image/x-panasonic-rw2", 50, "*.rw2", FALSE>>,
    <<"image/x-pentax-pef", 50, "*.pef", FALSE>>,
    <<"image/x-photo-cd", 50, "*.pcd", FALSE>>,
    <<"image/x-pict", 50, "*.pct", FALSE>>,
    <<"image/x-pict", 50, "*.pict", FALSE>>,
    <<"image/x-pict", 50, "*.pict1", FALSE>>,
    <<"image/x-pict", 50, "*.pict2", FALSE>>,
    <<"image/x-portable-anymap", 50, "*.pnm", FALSE>>,
    <<"image/x-portable-bitmap", 50, "*.pbm", FALSE>>,
    <<"image/x-portable-graymap", 50, "*.pgm", FALSE>>,
    <<"image/x-portable-pixmap", 50, "*.ppm", FALSE>>,
    <<"image/x-quicktime", 50, "*.qif", FALSE>>,
    <<"image/x-quicktime", 50, "*.qtif", FALSE>>,
    <<"image/x-rgb", 50, "*.rgb", FALSE>>,
    <<"image/x-sgi", 50, "*.sgi", FALSE>>,
    <<"image/x-sigma-x3f", 50, "*.x3f", FALSE>>,
    <<"image/x-skencil", 50, "*.sk", FALSE>>,
    <<"image/x-skencil", 50, "*.sk1", FALSE>>,
    <<"image/x-sony-arw", 50, "*.arw", FALSE>>,
    <<"image/x-sony-sr2", 50, "*.sr2", FALSE>>,
    <<"image/x-sony-srf", 50, "*.srf", FALSE>>,
    <<"image/x-sun-raster", 50, "*.sun", FALSE>>,
    <<"image/x-tga", 50, "*.icb", FALSE>>,
    <<"image/x-tga", 50, "*.tga", FALSE>>,
    <<"image/x-tga", 50, "*.tpic", FALSE>>,
    <<"image/x-tga", 50, "*.vda", FALSE>>,
    <<"image/x-tga", 50, "*.vst", FALSE>>,
    <<"image/x-win-bitmap", 50, "*.cur", FALSE>>,
    <<"image/x-xbitmap", 50, "*.xbm", FALSE>>,
    <<"image/x-xcf", 50, "*.xcf", FALSE>>,
    <<"image/x-xfig", 50, "*.fig", FALSE>>,
    <<"image/x-xpixmap", 50, "*.xpm", FALSE>>,
    <<"image/x-xwindowdump", 50, "*.xwd", FALSE>>,
    <<"message/rfc822", 50, "*.eml", FALSE>>,
    <<"message/x-gnu-rmail", 50, "rmail", FALSE>>,
    <<"model/3mf", 50, "*.3mf", FALSE>>,
    <<"model/gltf+json", 50, "*.gltf", FALSE>>,
    <<"model/gltf-binary", 50, "*.glb", FALSE>>,
    <<"model/iges", 50, "*.iges", FALSE>>,
    <<"model/iges", 50, "*.igs", FALSE>>, <<"model/mtl", 50, "*.mtl", FALSE>>,
    <<"model/obj", 50, "*.obj", FALSE>>, <<"model/stl", 50, "*.stl", FALSE>>,
    <<"model/vrml", 50, "*.vrm", FALSE>>,
    <<"model/vrml", 50, "*.vrml", FALSE>>,
    <<"model/vrml", 50, "*.wrl", FALSE>>,
    <<"text/cache-manifest", 50, "*.manifest", FALSE>>,
    <<"text/calendar", 50, "*.ics", FALSE>>,
    <<"text/calendar", 50, "*.vcs", FALSE>>,
    <<"text/css", 50, "*.css", FALSE>>, <<"text/csv", 50, "*.csv", FALSE>>,
    <<"text/csv-schema", 50, "*.csvs", FALSE>>,
    <<"text/html", 80, "*.htm", FALSE>>, <<"text/html", 80, "*.html", FALSE>>,
    <<"text/markdown", 50, "*.markdown", FALSE>>,
    <<"text/markdown", 50, "*.md", FALSE>>,
    <<"text/markdown", 50, "*.mkd", FALSE>>,
    <<"text/org", 50, "*.org", FALSE>>, <<"text/plain", 50, "*,v", FALSE>>,
    <<"text/plain", 50, "*.asc", FALSE>>, <<"text/plain", 50, "*.txt", FALSE>>,
    <<"text/richtext", 50, "*.rtx", FALSE>>,
    <<"text/rust", 50, "*.rs", FALSE>>, <<"text/sgml", 50, "*.sgm", FALSE>>,
    <<"text/sgml", 50, "*.sgml", FALSE>>,
    <<"text/spreadsheet", 50, "*.slk", FALSE>>,
    <<"text/spreadsheet", 50, "*.sylk", FALSE>>,
    <<"text/tab-separated-values", 50, "*.tsv", FALSE>>,
    <<"text/tcl", 50, "*.tcl", FALSE>>, <<"text/tcl", 50, "*.tk", FALSE>>,
    <<"text/troff", 50, "*.roff", FALSE>>, <<"text/troff", 10, "*.t", FALSE>>,
    <<"text/troff", 50, "*.tr", FALSE>>, <<"text/turtle", 50, "*.ttl", FALSE>>,
    <<"text/vbscript", 50, "*.vbs", FALSE>>,
    <<"text/vcard", 50, "*.gcrd", FALSE>>,
    <<"text/vcard", 50, "*.vcard", FALSE>>,
    <<"text/vcard", 50, "*.vcf", FALSE>>, <<"text/vcard", 50, "*.vct", FALSE>>,
    <<"text/vnd.graphviz", 50, "*.dot", FALSE>>,
    <<"text/vnd.graphviz", 50, "*.gv", FALSE>>,
    <<"text/vnd.rn-realtext", 50, "*.rt", FALSE>>,
    <<"text/vnd.senx.warpscript", 50, "*.mc2", FALSE>>,
    <<"text/vnd.sun.j2me.app-descriptor", 50, "*.jad", FALSE>>,
    <<"text/vnd.trolltech.linguist", 50, "*.ts", FALSE>>,
    <<"text/vnd.wap.wml", 50, "*.wml", FALSE>>,
    <<"text/vnd.wap.wmlscript", 50, "*.wmls", FALSE>>,
    <<"text/vtt", 50, "*.vtt", FALSE>>,
    <<"text/x-adasrc", 50, "*.adb", FALSE>>,
    <<"text/x-adasrc", 50, "*.ads", FALSE>>,
    <<"text/x-authors", 50, "authors", FALSE>>,
    <<"text/x-bibtex", 50, "*.bib", FALSE>>,
    <<"text/x-c++hdr", 50, "*.h++", FALSE>>,
    <<"text/x-c++hdr", 50, "*.hh", FALSE>>,
    <<"text/x-c++hdr", 50, "*.hp", FALSE>>,
    <<"text/x-c++hdr", 50, "*.hpp", FALSE>>,
    <<"text/x-c++hdr", 50, "*.hxx", FALSE>>,
    <<"text/x-c++src", 50, "*.C", TRUE>>,
    <<"text/x-c++src", 50, "*.c++", FALSE>>,
    <<"text/x-c++src", 50, "*.cc", FALSE>>,
    <<"text/x-c++src", 50, "*.cpp", FALSE>>,
    <<"text/x-c++src", 50, "*.cxx", FALSE>>,
    <<"text/x-changelog", 50, "changelog", FALSE>>,
    <<"text/x-chdr", 50, "*.h", FALSE>>,
    <<"text/x-cmake", 50, "*.cmake", FALSE>>,
    <<"text/x-cmake", 50, "cmakelists.txt", FALSE>>,
    <<"text/x-cobol", 50, "*.cbl", FALSE>>,
    <<"text/x-cobol", 50, "*.cob", FALSE>>,
    <<"text/x-common-lisp", 50, "*.asd", FALSE>>,
    <<"text/x-common-lisp", 50, "*.fasl", FALSE>>,
    <<"text/x-common-lisp", 50, "*.lisp", FALSE>>,
    <<"text/x-common-lisp", 50, "*.ros", FALSE>>,
    <<"text/x-copying", 50, "copying", FALSE>>,
    <<"text/x-credits", 50, "credits", FALSE>>,
    <<"text/x-crystal", 50, "*.cr", FALSE>>,
    <<"text/x-csharp", 50, "*.cs", FALSE>>, <<"text/x-csrc", 50, "*.c", TRUE>>,
    <<"text/x-dart", 50, "*.dart", FALSE>>,
    <<"text/x-dbus-service", 50, "*.service", FALSE>>,
    <<"text/x-dcl", 50, "*.dcl", FALSE>>, <<"text/x-dsl", 50, "*.dsl", FALSE>>,
    <<"text/x-dsrc", 50, "*.d", FALSE>>, <<"text/x-dsrc", 50, "*.di", FALSE>>,
    <<"text/x-eiffel", 50, "*.e", FALSE>>,
    <<"text/x-eiffel", 50, "*.eif", FALSE>>,
    <<"text/x-elixir", 50, "*.ex", FALSE>>,
    <<"text/x-elixir", 50, "*.exs", FALSE>>,
    <<"text/x-emacs-lisp", 50, "*.el", FALSE>>,
    <<"text/x-erlang", 50, "*.erl", FALSE>>,
    <<"text/x-fortran", 50, "*.f", FALSE>>,
    <<"text/x-fortran", 50, "*.f90", FALSE>>,
    <<"text/x-fortran", 50, "*.f95", FALSE>>,
    <<"text/x-fortran", 50, "*.for", FALSE>>,
    <<"text/x-gcode-gx", 50, "*.gx", FALSE>>,
    <<"text/x-genie", 50, "*.gs", TRUE>>,
    <<"text/x-gettext-translation", 50, "*.po", FALSE>>,
    <<"text/x-gettext-translation-template", 50, "*.pot", FALSE>>,
    <<"text/x-gherkin", 50, "*.feature", FALSE>>,
    <<"text/x-go", 50, "*.go", FALSE>>,
    <<"text/x-google-video-pointer", 50, "*.gvp", FALSE>>,
    <<"text/x-gradle", 50, "*.gradle", FALSE>>,
    <<"text/x-groovy", 50, "*.groovy", FALSE>>,
    <<"text/x-groovy", 50, "*.gsh", FALSE>>,
    <<"text/x-groovy", 50, "*.gvy", FALSE>>,
    <<"text/x-groovy", 50, "*.gy", FALSE>>,
    <<"text/x-haskell", 50, "*.hs", FALSE>>,
    <<"text/x-iMelody", 50, "*.ime", FALSE>>,
    <<"text/x-iMelody", 50, "*.imy", FALSE>>,
    <<"text/x-idl", 50, "*.idl", FALSE>>,
    <<"text/x-install", 50, "install", FALSE>>,
    <<"text/x-iptables", 50, "*.iptables", FALSE>>,
    <<"text/x-java", 50, "*.java", FALSE>>,
    <<"text/x-kaitai-struct", 50, "*.ksy", FALSE>>,
    <<"text/x-kotlin", 50, "*.kt", FALSE>>,
    <<"text/x-ldif", 50, "*.ldif", FALSE>>,
    <<"text/x-lilypond", 50, "*.ly", FALSE>>,
    <<"text/x-literate-haskell", 50, "*.lhs", FALSE>>,
    <<"text/x-log", 50, "*.log", FALSE>>, <<"text/x-lua", 50, "*.lua", FALSE>>,
    <<"text/x-makefile", 50, "*.mak", FALSE>>,
    <<"text/x-makefile", 50, "*.mk", FALSE>>,
    <<"text/x-makefile", 50, "gnumakefile", FALSE>>,
    <<"text/x-makefile", 50, "makefile", FALSE>>,
    <<"text/x-makefile", 10, "makefile.*", FALSE>>,
    <<"text/x-matlab", 50, "*.m", FALSE>>,
    <<"text/x-maven+xml", 50, "pom.xml", FALSE>>,
    <<"text/x-maven+xml", 50, "settings.xml", FALSE>>,
    <<"text/x-meson", 50, "meson.build", FALSE>>,
    <<"text/x-meson", 50, "meson_options.txt", FALSE>>,
    <<"text/x-microdvd", 50, "*.sub", FALSE>>,
    <<"text/x-moc", 50, "*.moc", FALSE>>,
    <<"text/x-modelica", 50, "*.mo", FALSE>>,
    <<"text/x-mof", 50, "*.mof", FALSE>>,
    <<"text/x-mpl2", 50, "*.mpl", FALSE>>,
    <<"text/x-mpsub", 50, "*.sub", FALSE>>,
    <<"text/x-mrml", 50, "*.mrl", FALSE>>,
    <<"text/x-mrml", 50, "*.mrml", FALSE>>,
    <<"text/x-ms-regedit", 50, "*.reg", FALSE>>,
    <<"text/x-mup", 50, "*.mup", FALSE>>, <<"text/x-mup", 50, "*.not", FALSE>>,
    <<"text/x-nfo", 50, "*.nfo", FALSE>>,
    <<"text/x-objc++src", 50, "*.mm", FALSE>>,
    <<"text/x-objcsrc", 50, "*.m", FALSE>>,
    <<"text/x-ocaml", 50, "*.ml", FALSE>>,
    <<"text/x-ocaml", 50, "*.mli", FALSE>>,
    <<"text/x-ocl", 50, "*.ocl", FALSE>>, <<"text/x-ooc", 50, "*.ooc", FALSE>>,
    <<"text/x-opencl-src", 50, "*.cl", FALSE>>,
    <<"text/x-opml+xml", 50, "*.opml", FALSE>>,
    <<"text/x-pascal", 50, "*.p", FALSE>>,
    <<"text/x-pascal", 50, "*.pas", FALSE>>,
    <<"text/x-patch", 50, "*.diff", FALSE>>,
    <<"text/x-patch", 50, "*.patch", FALSE>>,
    <<"text/x-python", 60, "*.py", FALSE>>,
    <<"text/x-python", 60, "*.pyx", FALSE>>,
    <<"text/x-python", 60, "*.wsgi", FALSE>>,
    <<"text/x-python3", 50, "*.py", FALSE>>,
    <<"text/x-python3", 60, "*.py3", FALSE>>,
    <<"text/x-python3", 60, "*.py3x", FALSE>>,
    <<"text/x-python3", 60, "*.pyi", FALSE>>,
    <<"text/x-qml", 50, "*.qml", FALSE>>,
    <<"text/x-qml", 50, "*.qmlproject", FALSE>>,
    <<"text/x-qml", 50, "*.qmltypes", FALSE>>,
    <<"text/x-readme", 10, "readme*", FALSE>>,
    <<"text/x-reject", 50, "*.rej", FALSE>>,
    <<"text/x-rpm-spec", 50, "*.spec", FALSE>>,
    <<"text/x-rst", 50, "*.rst", FALSE>>,
    <<"text/x-sagemath", 60, "*.sage", FALSE>>,
    <<"text/x-sass", 50, "*.sass", FALSE>>,
    <<"text/x-scala", 50, "*.sc", FALSE>>,
    <<"text/x-scala", 50, "*.scala", FALSE>>,
    <<"text/x-scheme", 50, "*.scm", FALSE>>,
    <<"text/x-scheme", 50, "*.ss", FALSE>>,
    <<"text/x-scons", 50, "sconscript", FALSE>>,
    <<"text/x-scons", 50, "sconscript.*", FALSE>>,
    <<"text/x-scons", 50, "sconstruct", FALSE>>,
    <<"text/x-scss", 50, "*.scss", FALSE>>,
    <<"text/x-setext", 50, "*.etx", FALSE>>,
    <<"text/x-ssa", 50, "*.ass", FALSE>>, <<"text/x-ssa", 50, "*.ssa", FALSE>>,
    <<"text/x-subviewer", 50, "*.sub", FALSE>>,
    <<"text/x-svhdr", 50, "*.svh", FALSE>>,
    <<"text/x-svsrc", 50, "*.sv", FALSE>>,
    <<"text/x-systemd-unit", 50, "*.automount", FALSE>>,
    <<"text/x-systemd-unit", 50, "*.device", FALSE>>,
    <<"text/x-systemd-unit", 50, "*.mount", FALSE>>,
    <<"text/x-systemd-unit", 50, "*.path", FALSE>>,
    <<"text/x-systemd-unit", 50, "*.scope", FALSE>>,
    <<"text/x-systemd-unit", 50, "*.service", FALSE>>,
    <<"text/x-systemd-unit", 50, "*.slice", FALSE>>,
    <<"text/x-systemd-unit", 50, "*.socket", FALSE>>,
    <<"text/x-systemd-unit", 50, "*.swap", FALSE>>,
    <<"text/x-systemd-unit", 50, "*.target", FALSE>>,
    <<"text/x-systemd-unit", 50, "*.timer", FALSE>>,
    <<"text/x-tex", 50, "*.cls", FALSE>>, <<"text/x-tex", 50, "*.dtx", FALSE>>,
    <<"text/x-tex", 50, "*.ins", FALSE>>,
    <<"text/x-tex", 50, "*.latex", FALSE>>,
    <<"text/x-tex", 50, "*.ltx", FALSE>>, <<"text/x-tex", 50, "*.sty", FALSE>>,
    <<"text/x-tex", 50, "*.tex", FALSE>>,
    <<"text/x-texinfo", 50, "*.texi", FALSE>>,
    <<"text/x-texinfo", 50, "*.texinfo", FALSE>>,
    <<"text/x-troff-me", 50, "*.me", FALSE>>,
    <<"text/x-troff-mm", 50, "*.mm", FALSE>>,
    <<"text/x-troff-ms", 50, "*.ms", FALSE>>,
    <<"text/x-twig", 50, "*.twig", FALSE>>,
    <<"text/x-txt2tags", 50, "*.t2t", FALSE>>,
    <<"text/x-uil", 50, "*.uil", FALSE>>,
    <<"text/x-uuencode", 50, "*.uue", FALSE>>,
    <<"text/x-vala", 50, "*.vala", FALSE>>,
    <<"text/x-vala", 50, "*.vapi", FALSE>>,
    <<"text/x-verilog", 50, "*.v", FALSE>>,
    <<"text/x-vhdl", 50, "*.vhd", FALSE>>,
    <<"text/x-vhdl", 50, "*.vhdl", FALSE>>,
    <<"text/x-xmi", 50, "*.xmi", FALSE>>,
    <<"text/x-xslfo", 50, "*.fo", FALSE>>,
    <<"text/x-xslfo", 50, "*.xslfo", FALSE>>,
    <<"text/x.gcode", 50, "*.gcode", FALSE>>,
    <<"video/3gpp", 50, "*.3ga", FALSE>>, <<"video/3gpp", 50, "*.3gp", FALSE>>,
    <<"video/3gpp", 50, "*.3gpp", FALSE>>,
    <<"video/3gpp2", 50, "*.3g2", FALSE>>,
    <<"video/3gpp2", 50, "*.3gp2", FALSE>>,
    <<"video/3gpp2", 50, "*.3gpp2", FALSE>>,
    <<"video/annodex", 50, "*.axv", FALSE>>, <<"video/dv", 50, "*.dv", FALSE>>,
    <<"video/mj2", 50, "*.mj2", FALSE>>, <<"video/mj2", 50, "*.mjp2", FALSE>>,
    <<"video/mp2t", 50, "*.bdm", FALSE>>,
    <<"video/mp2t", 50, "*.bdmv", FALSE>>,
    <<"video/mp2t", 50, "*.clpi", FALSE>>,
    <<"video/mp2t", 50, "*.cpi", FALSE>>, <<"video/mp2t", 50, "*.m2t", FALSE>>,
    <<"video/mp2t", 50, "*.m2ts", FALSE>>,
    <<"video/mp2t", 50, "*.mpl", FALSE>>,
    <<"video/mp2t", 50, "*.mpls", FALSE>>,
    <<"video/mp2t", 50, "*.mts", FALSE>>, <<"video/mp2t", 50, "*.ts", FALSE>>,
    <<"video/mp4", 50, "*.f4v", FALSE>>, <<"video/mp4", 50, "*.lrv", FALSE>>,
    <<"video/mp4", 50, "*.m4v", FALSE>>, <<"video/mp4", 50, "*.mp4", FALSE>>,
    <<"video/mpeg", 50, "*.mp2", FALSE>>, <<"video/mpeg", 50, "*.mpe", FALSE>>,
    <<"video/mpeg", 50, "*.mpeg", FALSE>>,
    <<"video/mpeg", 50, "*.mpg", FALSE>>, <<"video/mpeg", 50, "*.vob", FALSE>>,
    <<"video/mpeg", 50, "[0-9][0-9][0-9].vdr", FALSE>>,
    <<"video/ogg", 50, "*.ogg", FALSE>>, <<"video/ogg", 50, "*.ogv", FALSE>>,
    <<"video/quicktime", 50, "*.moov", FALSE>>,
    <<"video/quicktime", 50, "*.mov", FALSE>>,
    <<"video/quicktime", 50, "*.qt", FALSE>>,
    <<"video/quicktime", 50, "*.qtvr", FALSE>>,
    <<"video/vnd.mpegurl", 50, "*.m1u", FALSE>>,
    <<"video/vnd.mpegurl", 50, "*.m4u", FALSE>>,
    <<"video/vnd.mpegurl", 50, "*.mxu", FALSE>>,
    <<"video/vnd.radgamettools.bink", 50, "*.bik", FALSE>>,
    <<"video/vnd.radgamettools.bink", 50, "*.bk2", FALSE>>,
    <<"video/vnd.radgamettools.smacker", 50, "*.smk", FALSE>>,
    <<"video/vnd.rn-realvideo", 50, "*.rv", FALSE>>,
    <<"video/vnd.rn-realvideo", 50, "*.rvx", FALSE>>,
    <<"video/vnd.vivo", 50, "*.viv", FALSE>>,
    <<"video/vnd.vivo", 50, "*.vivo", FALSE>>,
    <<"video/webm", 50, "*.webm", FALSE>>,
    <<"video/x-anim", 50, "*.anim[1-9j]", FALSE>>,
    <<"video/x-flic", 50, "*.flc", FALSE>>,
    <<"video/x-flic", 50, "*.fli", FALSE>>,
    <<"video/x-flv", 50, "*.flv", FALSE>>,
    <<"video/x-javafx", 50, "*.fxm", FALSE>>,
    <<"video/x-matroska", 50, "*.mkv", FALSE>>,
    <<"video/x-matroska-3d", 50, "*.mk3d", FALSE>>,
    <<"video/x-mjpeg", 50, "*.mjpeg", FALSE>>,
    <<"video/x-mjpeg", 50, "*.mjpg", FALSE>>,
    <<"video/x-mng", 50, "*.mng", FALSE>>,
    <<"video/x-ms-wmv", 50, "*.wmv", FALSE>>,
    <<"video/x-msvideo", 50, "*.avf", FALSE>>,
    <<"video/x-msvideo", 50, "*.avi", FALSE>>,
    <<"video/x-msvideo", 50, "*.divx", FALSE>>,
    <<"video/x-nsv", 50, "*.nsv", FALSE>>,
    <<"video/x-ogm+ogg", 50, "*.ogm", FALSE>>,
    <<"video/x-sgi-movie", 50, "*.movie", FALSE>>,
    <<"video/x-theora+ogg", 50, "*.ogg", FALSE>>,
    <<"x-epoc/x-sisx-app", 50, "*.sisx", FALSE>>
    >>

\* QString::QString_count(c): how often the character c occurs in s
RECURSIVE QString_count(_, _)
QString_count(s, c) ==
    IF s = "" THEN 0
    ELSE (IF Head(s) = c THEN 1 ELSE 0) + QString_count(Tail(s), c)

\* the name starts with the prefix
startsWith(name, prefix) ==
    /\ Len(name) >= Len(prefix)
    /\ SubSeq(name, 1, Len(prefix)) = prefix

\* QFileInfo(name).fileName(): what follows the last slash
RECURSIVE QFileInfo_fileName(_)
QFileInfo_fileName(name) ==
    IF QString_count(name, "/") = 0 THEN name
    ELSE QFileInfo_fileName(Tail(name))

\* the character c is in the set written between the brackets of a wildcard:
\* single characters and ranges such as 1-9
RECURSIVE inCharacterSet(_, _)
inCharacterSet(set, c) ==
    IF set = "" THEN FALSE
    ELSE IF Len(set) >= 3 /\ CharAt(set, 2) = "-"
    THEN \/ ByteValue[c] \in ByteValue[CharAt(set, 1)] ..
                             ByteValue[CharAt(set, 3)]
         \/ inCharacterSet(SubSeq(set, 4, Len(set)), c)
    ELSE \/ c = Head(set)
         \/ inCharacterSet(Tail(set), c)

\* the whole of name matches the wildcard: * stands for any characters, ? for
\* one, [set] for one character of the set
RECURSIVE wildcardMatch(_, _)
wildcardMatch(pattern, name) ==
    IF pattern = "" THEN name = ""
    ELSE IF Head(pattern) = "*"
    THEN \/ wildcardMatch(Tail(pattern), name)
         \/ name # "" /\ wildcardMatch(pattern, Tail(name))
    ELSE IF name = "" THEN FALSE
    ELSE IF Head(pattern) = "?"
    THEN wildcardMatch(Tail(pattern), Tail(name))
    ELSE IF Head(pattern) = "[" /\ QString_count(pattern, "]") > 0
    THEN LET close == CHOOSE i \in 1 .. Len(pattern) :
                        /\ CharAt(pattern, i) = "]"
                        /\ QString_count(SubSeq(pattern, 1, i - 1), "]") = 0
         IN  /\ inCharacterSet(SubSeq(pattern, 2, close - 1), Head(name))
             /\ wildcardMatch(SubSeq(pattern, close + 1, Len(pattern)),
                              Tail(name))
    ELSE /\ Head(pattern) = Head(name)
         /\ wildcardMatch(Tail(pattern), Tail(name))

\* QMimeGlobPattern::matchFileName of the glob <<type, weight, pattern, case
\* sensitive>> on a file name and its lower-case form: a pattern that is one
\* star and a suffix, a prefix and one star, a name without wildcard, or any
\* other wildcard
matchFileName(glob, inputFilename, lowered) ==
    LET pattern == glob[3]
        filename == IF glob[4] THEN inputFilename ELSE lowered
        starCount == QString_count(pattern, "*")
    IN  IF Head(pattern) = "*" /\ QString_count(pattern, "[") = 0 /\ starCount = 1
        THEN endsWith(filename, Tail(pattern))
        ELSE IF starCount = 1 /\ CharAt(pattern, Len(pattern)) = "*"
        THEN startsWith(filename, SubSeq(pattern, 1, Len(pattern) - 1))
        ELSE IF QString_count(pattern, "[") = 0 /\ starCount = 0
                /\ Head(pattern) # "?"
        THEN pattern = filename
        ELSE wildcardMatch(pattern, filename)

\* mime.cache keeps a glob in its reverse suffix tree when it is one star
\* and a text without wildcard, else in its lists of literals and of globs
inSuffixTree(pattern) ==
    /\ Head(pattern) = "*"
    /\ QString_count(pattern, "*") = 1
    /\ QString_count(pattern, "?") = 0
    /\ QString_count(pattern, "[") = 0

\* of the globs numbered in matching, those with the longest pattern
longestPattern(globs, matching) ==
    {i \in matching :
        \A j \in matching : Len(globs[j][3]) <= Len(globs[i][3])}

\* of the globs numbered in matching, those of the greatest weight
greatestWeight(globs, matching) ==
    {i \in matching : \A j \in matching : globs[j][2] <= globs[i][2]}

\* of the globs numbered in matching, the first of each type
firstOfType(globs, matching) ==
    {i \in matching :
        \A j \in matching : globs[j][1] = globs[i][1] => i <= j}

\* the types of the globs numbered in matching, in the order of the numbers
typesInOrder(globs, matching) ==
    [k \in 1 .. Cardinality(matching) |->
        globs[CHOOSE i \in matching :
                Cardinality({j \in matching : j < i}) = k - 1][1]]

\* the first set unless it is empty, else the second
orElse(matched, otherwise) == IF matched # {} THEN matched ELSE otherwise

\* QMimeBinaryProvider::matchSuffixTree on the globs of the tree: the walk
\* from the last character of the name takes the longest suffix that has a
\* glob it may use (a case sensitive glob only in the case sensitive
\* check); a suffix of two or more characters is reached only when the name
\* is longer than it
matchSuffixTree(globs, fileName, caseSensitiveCheck) ==
    longestPattern(globs,
        {i \in DOMAIN globs :
            /\ inSuffixTree(globs[i][3])
            /\ caseSensitiveCheck \/ ~globs[i][4]
            /\ endsWith(fileName, Tail(globs[i][3]))
            /\ \/ Len(globs[i][3]) = 2
               \/ Len(globs[i][3]) - 1 < Len(fileName)})

\* QMimeBinaryProvider::matchGlobList on the literals and on the globs
matchGlobList(globs, fileName, lowered) ==
    {i \in DOMAIN globs :
        /\ ~inSuffixTree(globs[i][3])
        /\ matchFileName(globs[i], fileName, lowered)}

\* QMimeBinaryProvider::addFileNameMatches: the literals and globs that
\* match, and the suffix tree on the name in lower case; the suffix tree on
\* the name as it is only when nothing matched
addFileNameMatches(globs, fileName, lowered) ==
    orElse(matchGlobList(globs, fileName, lowered)
                \cup matchSuffixTree(globs, lowered, FALSE),
           matchSuffixTree(globs, fileName, TRUE))

\* what QMimeGlobMatchResult::addMatch keeps of the matches: those of the
\* greatest weight, of these those with the longest pattern; their types in
\* the order of their names, each once; none for a name no glob matches
matchingMimeTypes(globs, fileName, lowered) ==
    typesInOrder(globs,
        firstOfType(globs,
            longestPattern(globs,
                greatestWeight(globs,
                    addFileNameMatches(globs, fileName, lowered)))))

\* the types of the database for a name without path
findByFileName(fileName) ==
    matchingMimeTypes(MimeGlobs, fileName, toLower(fileName))

\* QMimeDatabase().mimeTypesForFileName with the binary provider, which Qt
\* takes where the database has a mime.cache: inode/directory for a name
\* that ends with a slash, else the types of the globs of the database that
\* match the name without its path
mimeTypesForFileName(name) ==
    IF name # "" /\ CharAt(name, Len(name)) = "/" THEN <<"inode/directory">>
    ELSE findByFileName(QFileInfo_fileName(name))

\* a MimePart object; id stands for its address
MimeText(id, text) ==
    [id |-> id, class |-> "MimeText", contentType |-> "text/plain",
     contentName |-> "", contentCharset |-> "UTF-8",
     contentEncoding |-> "ContentQuotedPrintableEncoded",
     disposition |-> "NoDisposition", data |-> text]

MimeHtml(id, html) ==
    [id |-> id, class |-> "MimeHtml", contentType |-> "text/html",
     contentName |-> "", contentCharset |-> "UTF-8",
     contentEncoding |-> "ContentQuotedPrintableEncoded",
     disposition |-> "NoDisposition", data |-> html]

MimeFile(id, fileContent, fileName) ==
    [id |-> id, class |-> "MimeFile",
     contentType |->
        LET mimeList == mimeTypesForFileName(setContentName(fileName))
        IN  IF Len(mimeList) = 1 THEN mimeList[1]
            ELSE "application/octet-stream",
     contentName |-> setContentName(fileName), contentCharset |-> "",
     contentEncoding |-> "ContentBase64Encoded",
     disposition |-> "NoDisposition", data |-> fileContent]

MimeInlineFile(id, fileContent, fileName) ==
    [MimeFile(id, fileContent, fileName) EXCEPT
        !.disposition = "DisposeInline"]

MimeAttachmentFile(id, fileContent, fileName) ==
    [MimeFile(id, fileContent, fileName) EXCEPT
        !.disposition = "DisposeAsAttachment"]

\* MimeMessage as default constructed; d_messageBody = 0 is the null pointer
MimeMessage0 ==
    [ d_senderAddress  |-> EmailAddress(<< >>, ""),
      d_replyToAddress |-> EmailAddress(<< >>, ""),
      d_toAddresses    |-> << >>,
      d_ccAddresses    |-> << >>,
      d_messageSubject |-> "",
      d_messageBody    |-> 0,
      d_multiPart      |-> << >> ]

\* the object d_messageBody points to, as a set of at most one part
MessageBodyPart(m) ==
    {m.d_multiPart[i] : i \in {k \in 1 .. Len(m.d_multiPart) :
                                 m.d_multiPart[k].id = m.d_messageBody}}

messageBodyText(m) ==
    IF \E p \in MessageBodyPart(m) : p.class = "MimeText"
    THEN (CHOOSE p \in MessageBodyPart(m) : p.class = "MimeText").data
    ELSE ""

\* messageBodyHtml without the cast to MimeHtml
messageBodyHtml_anyClass(m) ==
    IF MessageBodyPart(m) # {}
    THEN (CHOOSE p \in MessageBodyPart(m) : TRUE).data
    ELSE ""

messageBodyHtml(m) ==
    IF \E p \in MessageBodyPart(m) : p.class = "MimeHtml"
    THEN (CHOOSE p \in MessageBodyPart(m) : p.class = "MimeHtml").data
    ELSE ""

\* isValid that does not look at the Cc recipients
MimeMessage_isValid_ignoresCc(m) ==
    /\ EmailAddress_isValid(m.d_senderAddress)
    /\ (EmailAddress_isEmpty(m.d_replyToAddress)
            \/ EmailAddress_isValid(m.d_replyToAddress))
    /\ m.d_toAddresses # << >>
    /\ \A i \in 1 .. Len(m.d_toAddresses) :
            EmailAddress_isValid(m.d_toAddresses[i])
    /\ m.d_messageSubject # ""
    /\ ~(messageBodyText(m) = "" /\ messageBodyHtml(m) = "")

MimeMessage_isValid(m) ==
    /\ EmailAddress_isValid(m.d_senderAddress)
    /\ (EmailAddress_isEmpty(m.d_replyToAddress)
            \/ EmailAddress_isValid(m.d_replyToAddress))
    /\ m.d_toAddresses # << >>
    /\ \A i \in 1 .. Len(m.d_toAddresses) :
            EmailAddress_isValid(m.d_toAddresses[i])
    /\ \A i \in 1 .. Len(m.d_ccAddresses) :
            EmailAddress_isValid(m.d_ccAddresses[i])
    /\ m.d_messageSubject # ""
    /\ ~(messageBodyText(m) = "" /\ messageBodyHtml(m) = "")

\* MimePart::writeStdHeadersToDev on a device that takes every byte
writeStdHeadersToDev_ok(p) == p.contentType # ""

\* MimeText / MimeHtml / MimeFile ::writeToDev on such a device: success?
MimePart_writeToDev_ok(p) ==
    IF p.class = "MimeFile"
    THEN p.contentName # "" /\ p.data # "" /\ writeStdHeadersToDev_ok(p)
    ELSE p.data # "" /\ writeStdHeadersToDev_ok(p)

\* MimeMultiPartMixed::writeToDev on such a device: success?
MimeMultiPartMixed_writeToDev_ok(parts) ==
    IF parts = << >> THEN FALSE
    ELSE IF Len(parts) = 1 THEN MimePart_writeToDev_ok(parts[1])
    ELSE \A i \in 1 .. Len(parts) : MimePart_writeToDev_ok(parts[i])

\* the QBuffer of pn_sendMessage written to the socket whatever writeToDev
\* returned
MimeMessage_writeToDev_ok_anyway(m) == TRUE

\* MimeMessage::writeToDev into the QBuffer of pn_sendMessage: success?
MimeMessage_writeToDev_ok(m) ==
    MimeMessage_isValid(m) /\ MimeMultiPartMixed_writeToDev_ok(m.d_multiPart)

\* MimeUtils::encodeEmailAddress
encodeEmailAddress(email, maxWordSize) ==
    IF ~EmailAddress_isValid(email) THEN ""
    ELSE (IF email.d_name # ""
          THEN encodeMimeWordQ(email.d_name, maxWordSize) \o "\r\n <"
          ELSE "")
         \o Join(email.d_email)
         \o (IF email.d_name # "" THEN ">" ELSE "")

\* encodeEmailAddresses without the look at the validity of the elements
encodeEmailAddresses_unchecked(emails, maxWordSize) ==
    IF emails = << >> THEN ""
    ELSE join([i \in 1 .. Len(emails) |->
                    encodeEmailAddress(emails[i], maxWordSize)],
              ",\r\n ")

\* MimeUtils::encodeEmailAddresses
encodeEmailAddresses(emails, maxWordSize) ==
    IF emails = << >> THEN ""
    ELSE IF \E i \in 1 .. Len(emails) : ~EmailAddress_isValid(emails[i])
    THEN ""
    ELSE join([i \in 1 .. Len(emails) |->
                    encodeEmailAddress(emails[i], maxWordSize)],
              ",\r\n ")

\* what a writeToDev call returns and the bytes it wrote to a device that
\* takes every byte
WriteResult(ok, out) == [ok |-> ok, out |-> out]

\* MimePart::writeStdHeadersToDev
writeStdHeadersToDev(p, boundary) ==
    IF p.contentType = "" THEN WriteResult(FALSE, "")
    ELSE WriteResult(TRUE,
            "Content-Type: " \o p.contentType
            \o (IF p.contentName # ""
                THEN ";\r\n  name=\"" \o p.contentName \o "\"" ELSE "")
            \o (IF p.contentCharset # ""
                THEN ";\r\n  charset=" \o p.contentCharset ELSE "")
            \o (IF boundary # ""
                THEN ";\r\n  boundary=" \o boundary ELSE "")
            \o "\r\n"
            \o (IF p.contentEncoding = "ContentBase64Encoded"
                THEN "Content-Transfer-Encoding: base64\r\n"
                ELSE IF p.contentEncoding = "ContentQuotedPrintableEncoded"
                THEN "Content-Transfer-Encoding: quoted-printable\r\n"
                ELSE ""))

\* MimeText::writeToDev and MimeHtml::writeToDev
MimeText_writeToDev(p) ==
    IF p.data = "" THEN WriteResult(FALSE, "")
    ELSE IF ~writeStdHeadersToDev(p, "").ok
    THEN writeStdHeadersToDev(p, "")
    ELSE WriteResult(TRUE,
            writeStdHeadersToDev(p, "").out
            \o "\r\n"
            \o formatQuotedPrintableIntoLines(
                    encodeQuotedPrintable(p.data), MaxLineSize)
            \o "\r\n")

\* MimeFile::writeToDev
MimeFile_writeToDev(p) ==
    IF p.contentName = "" \/ p.data = "" THEN WriteResult(FALSE, "")
    ELSE IF ~writeStdHeadersToDev(p, "").ok
    THEN writeStdHeadersToDev(p, "")
    ELSE WriteResult(TRUE,
            writeStdHeadersToDev(p, "").out
            \o (IF p.disposition = "DisposeAsAttachment"
                THEN "Content-Disposition: attachment;\r\n  filename=\""
                        \o p.contentName \o "\"\r\n"
                ELSE IF p.disposition = "DisposeInline"
                THEN "Content-Disposition: inline\r\n"
                ELSE "")
            \o "\r\n"
            \o formatDataIntoLines(QByteArray_toBase64(p.data), MaxLineSize)
            \o "\r\n")

\* the virtual MimePart::writeToDev of a part of the multipart
MimePart_writeToDev(p) ==
    IF p.class = "MimeFile" THEN MimeFile_writeToDev(p)
    ELSE MimeText_writeToDev(p)

\* the for loop writing the boundary prefix in front of the first part only
RECURSIVE MimeMultiPartMixed_writeParts_onePrefix(_, _)
MimeMultiPartMixed_writeParts_onePrefix(parts, boundaryPrefix) ==
    IF parts = << >> THEN WriteResult(TRUE, "")
    ELSE LET first == MimePart_writeToDev(Head(parts))
             others == MimeMultiPartMixed_writeParts_onePrefix(Tail(parts), "")
         IN  IF ~first.ok THEN WriteResult(FALSE, boundaryPrefix \o first.out)
             ELSE WriteResult(others.ok,
                         boundaryPrefix \o first.out \o others.out)

\* the for loop of MimeMultiPartMixed::writeToDev
RECURSIVE MimeMultiPartMixed_writeParts(_, _)
MimeMultiPartMixed_writeParts(parts, boundaryPrefix) ==
    IF parts = << >> THEN WriteResult(TRUE, "")
    ELSE LET first == MimePart_writeToDev(Head(parts))
             others == MimeMultiPartMixed_writeParts(Tail(parts),
                                                     boundaryPrefix)
         IN  IF ~first.ok THEN WriteResult(FALSE, boundaryPrefix \o first.out)
             ELSE WriteResult(others.ok,
                         boundaryPrefix \o first.out \o others.out)

\* the multipart itself as a MimePart
MimeMultiPartMixed0 ==
    [contentType |-> "multipart/mixed", contentName |-> "",
     contentCharset |-> "", contentEncoding |-> "ContentNotEncoded"]

\* MimeMultiPartMixed::writeToDev wrapping a single child like any other
MimeMultiPartMixed_writeToDev_wrapsOne(parts, boundaryStr) ==
    IF parts = << >> THEN WriteResult(FALSE, "")
    ELSE LET head == writeStdHeadersToDev(MimeMultiPartMixed0, boundaryStr)
             body == MimeMultiPartMixed_writeParts(
                        parts, "--" \o boundaryStr \o "\r\n")
         IN  IF ~head.ok THEN head
             ELSE IF ~body.ok
             THEN WriteResult(FALSE, head.out \o "\r\n" \o body.out)
             ELSE WriteResult(TRUE, head.out \o "\r\n" \o body.out
                                \o "--" \o boundaryStr \o "--\r\n")

\* MimeMultiPartMixed::writeToDev, boundaryStr being the uuid created
MimeMultiPartMixed_writeToDev(parts, boundaryStr) ==
    IF parts = << >> THEN WriteResult(FALSE, "")
    ELSE IF Len(parts) = 1 THEN MimePart_writeToDev(parts[1])
    ELSE LET head == writeStdHeadersToDev(MimeMultiPartMixed0, boundaryStr)
             body == MimeMultiPartMixed_writeParts(
                        parts, "--" \o boundaryStr \o "\r\n")
         IN  IF ~head.ok THEN head
             ELSE IF ~body.ok
             THEN WriteResult(FALSE, head.out \o "\r\n" \o body.out)
             ELSE WriteResult(TRUE, head.out \o "\r\n" \o body.out
                                \o "--" \o boundaryStr \o "--\r\n")

\* QDateTime::currentDateTime().toString(Qt::RFC2822Date) at the call
CurrentDateTime == "01 Jan 2026 00:00:00 +0000"

\* QUuid::createUuid().toRfc4122().toHex() at the call
CreatedUuid == "000102030405060708090a0b0c0d0e0f"

\* the header MimeMessage::writeToDev computes
MimeMessage_header(m) ==
    "MIME-Version: 1.0\r\n"
    \o "Date: " \o CurrentDateTime \o "\r\n"
    \o (IF ~EmailAddress_isEmpty(m.d_senderAddress)
        THEN "From: "
                \o encodeEmailAddress(m.d_senderAddress, MaxMimeWordSize)
                \o "\r\n"
        ELSE "")
    \o (IF ~EmailAddress_isEmpty(m.d_replyToAddress)
        THEN "Reply-To: "
                \o encodeEmailAddress(m.d_replyToAddress, MaxMimeWordSize)
                \o "\r\n"
        ELSE "")
    \o (IF m.d_toAddresses # << >>
        THEN "To: " \o encodeEmailAddresses(m.d_toAddresses, MaxMimeWordSize)
                \o "\r\n"
        ELSE "")
    \o (IF m.d_ccAddresses # << >>
        THEN "Cc: " \o encodeEmailAddresses(m.d_ccAddresses, MaxMimeWordSize)
                \o "\r\n"
        ELSE "")
    \o (IF m.d_messageSubject # ""
        THEN "Subject: "
                \o encodeMimeWordQ(m.d_messageSubject, MaxMimeWordSize)
                \o "\r\n"
        ELSE "")

\* MimeMessage::writeToDev
MimeMessage_writeToDev(m) ==
    IF ~MimeMessage_isValid(m) THEN WriteResult(FALSE, "")
    ELSE LET parts == MimeMultiPartMixed_writeToDev(m.d_multiPart,
                                                    CreatedUuid)
         IN  IF ~parts.ok
             THEN WriteResult(FALSE, MimeMessage_header(m) \o parts.out)
             ELSE WriteResult(TRUE, MimeMessage_header(m) \o parts.out
                                \o "\r\n.\r\n")

\* the bytes MimeMessage::writeToDev leaves in the QBuffer
MimeMessage_bytes(m) == <<"MIME-Version: 1.0\r\n", m, "\r\n.\r\n">>

\* addresses and messages the calls are made with
AddrA == EmailAddress(<<"a", "@", "b", ".", "c", "o">>, "")

AddrC == EmailAddress(<<"c", "@", "d", ".", "c", "o">>, "Ann")

AddrE == EmailAddress(<<"e", "@", "f", ".", "c", "o">>, "")

AddrG == EmailAddress(<<"g", "@", "h", ".", "c", "o">>, "")

\* a display name without address field: not empty, not valid
AddrNameOnly == EmailAddress(<< >>, "Bob")

MsgBase ==
    [MimeMessage0 EXCEPT !.d_senderAddress = AddrA,
                         !.d_messageSubject = "subject",
                         !.d_messageBody = 1,
                         !.d_multiPart = <<MimeText(1, "hi")>>]

\* one To recipient, no Cc
MsgOneTo == [MsgBase EXCEPT !.d_toAddresses = <<AddrC>>]

\* two To recipients and one Cc
MsgTwoToOneCc ==
    [MsgBase EXCEPT !.d_toAddresses = <<AddrC, AddrE>>,
                    !.d_ccAddresses = <<AddrG>>]

\* valid, yet its second part (a file without content) cannot be written
MsgUnwritable ==
    [MsgOneTo EXCEPT !.d_multiPart =
        <<MimeText(1, "hi"), MimeFile(2, "", "f.txt")>>]

\* invalid: a To recipient without address field
MsgInvalid == [MsgBase EXCEPT !.d_toAddresses = <<AddrC, AddrNameOnly>>]

Messages == {MsgOneTo, MsgTwoToOneCc, MsgUnwritable, MsgInvalid}

-----------------------------------------------------------------------------
(* The server and the transport.                                           *)

C220 == <<"2", "2", "0">>

C235 == <<"2", "3", "5">>

C250 == <<"2", "5", "0">>

C334 == <<"3", "3", "4">>

C354 == <<"3", "5", "4">>

\* lines the server may write, as QIODevice::readLine() returns them
Line220 == <<"2", "2", "0", " ", "x", "\r", "\n">>

Line235 == <<"2", "3", "5", " ", "o", "k", "\r", "\n">>

Line250 == <<"2", "5", "0", " ", "o", "k", "\r", "\n">>

Line250Cont == <<"2", "5", "0", "-", "x", "\r", "\n">>

Line334 == <<"3", "3", "4", " ", "P", "D", "E", "=", "\r", "\n">>

Line354 == <<"3", "5", "4", " ", "g", "o", "\r", "\n">>

Line550 == <<"5", "5", "0", " ", "n", "o", "\r", "\n">>

Line550Cont == <<"5", "5", "0", "-", "n", "o", "\r", "\n">>

\* a terminal line without text
Line250Empty == <<"2", "5", "0", " ", "\r", "\n">>

\* a code and nothing else
Line250Bare == <<"2", "5", "0", "\r", "\n">>

\* neither a space nor a hyphen behind the code
Line250Junk == <<"2", "5", "0", "x", "o", "k", "\r", "\n">>

\* a form feed behind the separator, as the whole text
Line250FormFeed == <<"2", "5", "0", " ", "\f", "\r", "\n">>

\* a form feed in front of the code
LineFormFeed250 == <<"\f", "2", "5", "0", " ", "o", "k", "\r", "\n">>

\* the line an obliging server answers with when the client expects code
ReplyLine(code) ==
    CASE code = C220 -> Line220
      [] code = C235 -> Line235
      [] code = C250 -> Line250
      [] code = C334 -> Line334
      [] code = C354 -> Line354

-----------------------------------------------------------------------------
(* Private helpers of smtp_client.cpp.                                     *)

\* pn_closeAndFail without the status update
pn_closeAndFail_keepStatus(dd) == [d |-> dd, sock |-> SocketClosed]

\* pn_closeAndFail without socket->close()
pn_closeAndFail_noClose(dd) ==
    [d |-> [dd EXCEPT !.status = "ST_Disconnected"],
     sock |-> [SocketClosed EXCEPT !.open = TRUE]]

\* pn_closeAndFail: the new PrivateData and socket
pn_closeAndFail(dd) ==
    [d |-> [dd EXCEPT !.status = "ST_Disconnected"], sock |-> SocketClosed]

\* pn_isAllowedToSend without its check
pn_isAllowedToSend_always(buf) == TRUE

\* pn_isAllowedToSend on the socket's read buffer
pn_isAllowedToSend(buf) == ~canReadLine(buf)

\* the loop of pn_waitForResponse over the lines the read buffer holds:
\*   res = "ok"   a terminal line with the expected code; body is its text
\*   res = "bad"  a terminal line with another code
\*   res = "more" no terminal line: the function waits for more data
\* rest is what the buffer still holds when the loop is left
RECURSIVE pn_waitForResponse(_, _)
pn_waitForResponse(buf, expectedCode) ==
    IF ~canReadLine(buf)
    THEN [res |-> "more", rest |-> << >>, body |-> << >>]
    ELSE LET line == trimmed(Head(buf))
             code == left(line, 3)
             codeToMsgSep == mid(line, 3, 1)
         IN  IF codeToMsgSep = <<" ">>
             THEN IF code # expectedCode
                  THEN [res |-> "bad", rest |-> Tail(buf), body |-> << >>]
                  ELSE [res |-> "ok", rest |-> Tail(buf),
                        body |-> midFrom(line, 4)]
             ELSE pn_waitForResponse(Tail(buf), expectedCode)

\* the steps a call takes on the socket, in program order
StepSend(data) == [k |-> "send", data |-> data, code |-> << >>]

StepWait(code) == [k |-> "wait", data |-> << >>, code |-> code]

\* a wait whose caller keeps receivedMessageBody
StepWaitBody(code) == [k |-> "waitBody", data |-> << >>, code |-> code]

StepOther(kind) == [k |-> kind, data |-> << >>, code |-> << >>]

\* pn_sendAndWaitFor
pn_sendAndWaitFor(dataToSend, expectedResCode) ==
    <<StepSend(dataToSend), StepWait(expectedResCode)>>

\* connectToServer without the check of the credentials
connectToServer_check_noCredentials(dd) ==
    IF dd.status # "ST_Disconnected"
    THEN "connection not allowed, client is already connected"
    ELSE IF dd.socket = "nullptr"
    THEN "unable to connect, call setConnectionType first"
    ELSE IF dd.serverHost = "" \/ dd.serverPort = 0
    THEN "unable to connect, missing server host / port"
    ELSE IF dd.clientHost = ""
    THEN "unable to connect, missing client host"
    ELSE ""

\* connectToServer without the check of the client host
connectToServer_check_noClientHost(dd) ==
    IF dd.status # "ST_Disconnected"
    THEN "connection not allowed, client is already connected"
    ELSE IF dd.socket = "nullptr"
    THEN "unable to connect, call setConnectionType first"
    ELSE IF dd.serverHost = "" \/ dd.serverPort = 0
    THEN "unable to connect, missing server host / port"
    ELSE IF dd.authMethod # "AuthNone"
            /\ (dd.accountUsername = "" \/ dd.accountPassword = "")
    THEN "unable to connect, missing account credentials"
    ELSE ""

\* connectToServer without the check of the status
connectToServer_check_noStatus(dd) ==
    IF dd.socket = "nullptr"
    THEN "unable to connect, call setConnectionType first"
    ELSE IF dd.serverHost = "" \/ dd.serverPort = 0
    THEN "unable to connect, missing server host / port"
    ELSE IF dd.clientHost = ""
    THEN "unable to connect, missing client host"
    ELSE IF dd.authMethod # "AuthNone"
            /\ (dd.accountUsername = "" \/ dd.accountPassword = "")
    THEN "unable to connect, missing account credentials"
    ELSE ""

\* the early returns of connectToServer: the record logged by the one
\* taken, "" when none is taken
connectToServer_check(dd) ==
    IF dd.status # "ST_Disconnected"
    THEN "connection not allowed, client is already connected"
    ELSE IF dd.socket = "nullptr"
    THEN "unable to connect, call setConnectionType first"
    ELSE IF dd.serverHost = "" \/ dd.serverPort = 0
    THEN "unable to connect, missing server host / port"
    ELSE IF dd.clientHost = ""
    THEN "unable to connect, missing client host"
    ELSE IF dd.authMethod # "AuthNone"
            /\ (dd.accountUsername = "" \/ dd.accountPassword = "")
    THEN "unable to connect, missing account credentials"
    ELSE ""

\* sendMessage without the check of the message
sendMessage_check_noValidity(dd, m) ==
    IF dd.status # "ST_Connected"
    THEN "unable to send, client is not connected"
    ELSE ""

\* the early returns of sendMessage, likewise
sendMessage_check(dd, m) ==
    IF ~MimeMessage_isValid(m)
    THEN "unable to send, message is not valid"
    ELSE IF dd.status # "ST_Connected"
    THEN "unable to send, client is not connected"
    ELSE ""

\* connectToServer: the upgrade of a TlsConnection
connectToServer_startTls(dd) ==
    IF dd.connectionType = "TlsConnection"
    THEN pn_sendAndWaitFor(<<"STARTTLS">>, C220)
            \o <<StepOther("startClientEncryption")>>
            \o pn_sendAndWaitFor(<<"EHLO ", dd.clientHost>>, C250)
    ELSE << >>

\* connectToServer sending the password of AUTH LOGIN without waiting for
\* the second 334
connectToServer_auth_loginNoWait(dd) ==
    IF dd.authMethod = "AuthPlain"
    THEN pn_sendAndWaitFor(
            <<"AUTH PLAIN ",
              toBase64("\\0" \o dd.accountUsername
                            \o "\\0" \o dd.accountPassword)>>,
            C235)
    ELSE IF dd.authMethod = "AuthLogin"
    THEN pn_sendAndWaitFor(<<"AUTH LOGIN">>, C334)
            \o <<StepSend(<<toBase64(dd.accountUsername)>>)>>
            \o pn_sendAndWaitFor(<<toBase64(dd.accountPassword)>>, C235)
    ELSE IF dd.authMethod = "AuthCramMd5"
    THEN <<StepSend(<<"AUTH CRAM-MD5">>), StepWaitBody(C334),
           StepOther("sendCramMd5"), StepWait(C235)>>
    ELSE << >>

\* connectToServer: the authentication of the configured method
connectToServer_auth(dd) ==
    IF dd.authMethod = "AuthPlain"
    THEN pn_sendAndWaitFor(
            <<"AUTH PLAIN ",
              toBase64("\\0" \o dd.accountUsername
                            \o "\\0" \o dd.accountPassword)>>,
            C235)
    ELSE IF dd.authMethod = "AuthLogin"
    THEN pn_sendAndWaitFor(<<"AUTH LOGIN">>, C334)
            \o pn_sendAndWaitFor(<<toBase64(dd.accountUsername)>>, C334)
            \o pn_sendAndWaitFor(<<toBase64(dd.accountPassword)>>, C235)
    ELSE IF dd.authMethod = "AuthCramMd5"
    THEN <<StepSend(<<"AUTH CRAM-MD5">>), StepWaitBody(C334),
           StepOther("sendCramMd5"), StepWait(C235)>>
    ELSE << >>

\* connectToServer authenticating before the upgrade to TLS
connectToServer_script_authFirst(dd) ==
    <<StepOther("waitForConnected"), StepWait(C220)>>
        \o pn_sendAndWaitFor(<<"EHLO ", dd.clientHost>>, C250)
        \o connectToServer_auth(dd)
        \o connectToServer_startTls(dd)

\* connectToServer after its early returns
connectToServer_script(dd) ==
    <<StepOther("waitForConnected"), StepWait(C220)>>
        \o pn_sendAndWaitFor(<<"EHLO ", dd.clientHost>>, C250)
        \o connectToServer_startTls(dd)
        \o connectToServer_auth(dd)

\* the token connectToServer answers a CRAM-MD5 challenge with
cramMd5Token(dd, challenge) ==
    <<toBase64(dd.accountUsername \o " "
                \o hmacMd5Hex(dd.accountPassword,
                              fromBase64(Join(challenge))))>>

\* sendMessage: one RCPT TO exchange per address of the list
RECURSIVE sendMessage_rcpt(_)
sendMessage_rcpt(addrs) ==
    IF addrs = << >> THEN << >>
    ELSE pn_sendAndWaitFor(<<"RCPT TO:<", Head(addrs).d_email, ">">>, C250)
            \o sendMessage_rcpt(Tail(addrs))

\* sendMessage with the loop over Cc in front of the loop over To
sendMessage_script_ccFirst(m) ==
    pn_sendAndWaitFor(<<"MAIL FROM:<", m.d_senderAddress.d_email, ">">>, C250)
        \o sendMessage_rcpt(m.d_ccAddresses)
        \o sendMessage_rcpt(m.d_toAddresses)
        \o pn_sendAndWaitFor(<<"DATA">>, C354)
        \o <<StepOther("sendMime"), StepWait(C250)>>

\* sendMessage after its early returns
sendMessage_script(m) ==
    pn_sendAndWaitFor(<<"MAIL FROM:<", m.d_senderAddress.d_email, ">">>, C250)
        \o sendMessage_rcpt(m.d_toAddresses)
        \o sendMessage_rcpt(m.d_ccAddresses)
        \o pn_sendAndWaitFor(<<"DATA">>, C354)
        \o <<StepOther("sendMime"), StepWait(C250)>>

\* the steps of the call in progress
Script ==
    IF op = "connectToServer" THEN connectToServer_script(d)
    ELSE IF op = "sendMessage" THEN sendMessage_script(msg)
    ELSE << >>

Step == Script[pc]

Idle == pc = 0 /\ ~aborted

Running(kinds) == pc > 0 /\ ~aborted /\ Step.k \in kinds

WaitKinds == {"wait", "waitBody"}

\* the code of the reply the client will wait for next
RECURSIVE NextWaitCode(_, _)
NextWaitCode(script, i) ==
    IF i > Len(script) THEN C250
    ELSE IF script[i].k \in WaitKinds THEN script[i].code
    ELSE NextWaitCode(script, i + 1)

\* what the server may write now: the reply the client expects next, an
\* extra "250 ok", a continuation line, an error reply, a bare code
ServerLines ==
    {ReplyLine(IF pc = 0 THEN C250 ELSE NextWaitCode(Script, pc)),
     Line250, Line250Cont, Line550, Line250Bare}

-----------------------------------------------------------------------------
(* The configuration setters of Client.                                    *)

CallVars == <<pc, op, msg, ret, trace, msgBody, warnings, staleAccepted>>

\* a call that takes no step on the socket was made: it is now the last call
\* and leaves nothing to report
Called(name) ==
    /\ pc' = pc
    /\ op' = name
    /\ msg' = MimeMessage0
    /\ ret' = FALSE
    /\ trace' = << >>
    /\ msgBody' = << >>
    /\ warnings' = << >>
    /\ staleAccepted' = FALSE

SocketVars == <<sock, net, nstale>>

\* a setter without the status check
SetWhenDisconnected_ungated(new) ==
    /\ Idle
    /\ d' = new
    /\ Called("set")
    /\ UNCHANGED <<SocketVars, aborted, nsent, PureVars>>

\* what every gated setter does around its assignment
SetWhenDisconnected(new) ==
    /\ Idle
    /\ d' = IF d.status # "ST_Disconnected" THEN d ELSE new
    /\ Called("set")
    /\ UNCHANGED <<SocketVars, aborted, nsent, PureVars>>

setServerHost(host) == SetWhenDisconnected([d EXCEPT !.serverHost = host])

setServerPort(port) == SetWhenDisconnected([d EXCEPT !.serverPort = port])

setClientHost(host) == SetWhenDisconnected([d EXCEPT !.clientHost = host])

\* setConnectionType without RT_CHECK(d->socket == nullptr)
setConnectionType_again(connectionType) ==
    /\ Idle
    /\ IF connectionType = "UnknownConnection"
       THEN aborted' = TRUE /\ d' = d
       ELSE /\ aborted' = aborted
            /\ d' = [d EXCEPT
                        !.connectionType = connectionType,
                        !.socket = IF connectionType = "TcpConnection"
                                   THEN "QTcpSocket" ELSE "QSslSocket"]
    /\ Called("set")
    /\ UNCHANGED <<SocketVars, nsent, PureVars>>

\* both overloads; RT_CHECK aborts the process before anything is stored
setConnectionType(connectionType) ==
    /\ Idle
    /\ IF d.socket # "nullptr" \/ connectionType = "UnknownConnection"
       THEN aborted' = TRUE /\ d' = d
       ELSE /\ aborted' = aborted
            /\ d' = [d EXCEPT
                        !.connectionType = connectionType,
                        !.socket = IF connectionType = "TcpConnection"
                                   THEN "QTcpSocket" ELSE "QSslSocket"]
    /\ Called("set")
    /\ UNCHANGED <<SocketVars, nsent, PureVars>>

\* setAccountUser without the update of the auth-mode
setAccountUser_keepsAuthMethod(user) ==
    SetWhenDisconnected([d EXCEPT !.accountUsername = user])

setAccountUser(user) ==
    SetWhenDisconnected(
        [d EXCEPT !.accountUsername = user,
                  !.authMethod = IF @ = "AuthNone" THEN "AuthPlain" ELSE @])

setAccountPassword(password) ==
    SetWhenDisconnected(
        [d EXCEPT !.accountPassword = password,
                  !.authMethod = IF @ = "AuthNone" THEN "AuthPlain" ELSE @])

setAuthMethod(method) == SetWhenDisconnected([d EXCEPT !.authMethod = method])

setConnectionTimeout(msec) ==
    SetWhenDisconnected([d EXCEPT !.connectionTimout = msec])

setResponseTimeout(msec) ==
    SetWhenDisconnected([d EXCEPT !.responseTimeout = msec])

setSendTimeout(msec) == SetWhenDisconnected([d EXCEPT !.sendTimeout = msec])

\* the one setter without a status check
setSocketTrafficLogEnabled(on) ==
    /\ Idle
    /\ d' = [d EXCEPT !.logSocketTraffic = on]
    /\ Called("set")
    /\ UNCHANGED <<SocketVars, aborted, nsent, PureVars>>

-----------------------------------------------------------------------------
(* connectToServer, sendMessage, closeConnection and their steps.          *)

\* a call returns false before it touched the socket
ReturnEarly(name, m, err) ==
    /\ op' = name
    /\ msg' = m
    /\ ret' = FALSE
    /\ trace' = << >>
    /\ msgBody' = << >>
    /\ warnings' = <<(<<err>>)>>
    /\ staleAccepted' = FALSE
    /\ UNCHANGED <<d, SocketVars, pc, aborted, nsent, PureVars>>

\* a call passed its early returns and goes on to its first step
Begin(name, m) ==
    /\ op' = name
    /\ msg' = m
    /\ pc' = 1
    /\ trace' = << >>
    /\ msgBody' = << >>
    /\ warnings' = << >>
    /\ staleAccepted' = FALSE
    /\ UNCHANGED <<d, ret, aborted, nsent, PureVars>>

\* connectToServer setting the status as soon as the transport is connected
Advance_connectedEarly ==
    /\ d' = IF op = "connectToServer"
            THEN [d EXCEPT !.status = "ST_Connected"] ELSE d
    /\ warnings' = warnings
    /\ IF pc < Len(Script)
       THEN pc' = pc + 1 /\ ret' = ret /\ nsent' = nsent
       ELSE /\ pc' = 0
            /\ ret' = TRUE
            /\ nsent' = IF op = "sendMessage" THEN nsent + 1 ELSE 0

\* sendMessage resetting the status when it returns true
Advance_disconnectedAfterSend ==
    IF pc < Len(Script)
    THEN pc' = pc + 1 /\ UNCHANGED <<d, ret, warnings, nsent>>
    ELSE /\ pc' = 0
         /\ ret' = TRUE
         /\ warnings' = warnings
         /\ nsent' = IF op = "sendMessage" THEN nsent + 1 ELSE 0
         /\ d' = [d EXCEPT !.status = IF op = "connectToServer"
                                      THEN "ST_Connected"
                                      ELSE "ST_Disconnected"]

\* the call in progress did its step: next step, or return true; the last
\* statement of connectToServer sets the status
Advance ==
    IF pc < Len(Script)
    THEN pc' = pc + 1 /\ UNCHANGED <<d, ret, warnings, nsent>>
    ELSE /\ pc' = 0
         /\ ret' = TRUE
         /\ warnings' = warnings
         /\ nsent' = IF op = "sendMessage" THEN nsent + 1 ELSE 0
         /\ d' = IF op = "connectToServer"
                 THEN [d EXCEPT !.status = "ST_Connected"] ELSE d

\* the records errs are logged, then: return pn_closeAndFail(d)
CloseAndFail(errs) ==
    /\ warnings' = warnings \o errs
    /\ d' = pn_closeAndFail(d).d
    /\ sock' = pn_closeAndFail(d).sock
    /\ net' = << >>
    /\ nstale' = 0
    /\ pc' = 0
    /\ ret' = FALSE
    /\ nsent' = 0
    /\ UNCHANGED <<op, msg, trace, msgBody, staleAccepted, aborted, PureVars>>

\* connectToServer up to connectToHost / connectToHostEncrypted
connectToServer ==
    /\ Idle
    /\ IF connectToServer_check(d) # ""
       THEN ReturnEarly("connectToServer", MimeMessage0,
                        connectToServer_check(d))
       ELSE /\ Begin("connectToServer", MimeMessage0)
            /\ sock' = [open |-> TRUE, state |-> "ConnectingState",
                        encrypted |-> FALSE, rbuf |-> << >>]
            /\ net' = << >>
            /\ nstale' = 0

\* waitForConnected returns true
waitForConnected_ok ==
    /\ Running({"waitForConnected"})
    /\ sock' = [sock EXCEPT !.state = "ConnectedState",
                            !.encrypted = (d.connectionType = "SslConnection")]
    /\ trace' = Append(trace, <<"connected">>)
    /\ Advance
    /\ UNCHANGED <<net, nstale, op, msg, msgBody, staleAccepted, aborted,
                   PureVars>>

\* waitForConnected returns false (the socket is back in UnconnectedState):
\* return pn_fail(...), the socket is not closed
waitForConnected_fail ==
    /\ Running({"waitForConnected"})
    /\ sock' = [sock EXCEPT !.state = "UnconnectedState"]
    /\ pc' = 0
    /\ ret' = FALSE
    /\ warnings' =
            <<(<<"unable to connect, connection timeout with error: %1">>)>>
    /\ UNCHANGED <<d, net, nstale, op, msg, trace, msgBody, staleAccepted,
                   aborted, nsent, PureVars>>

\* the bytes the send step in progress hands to socket->write
SendBytes ==
    IF Step.k = "sendMime" THEN MimeMessage_bytes(msg)
    ELSE IF Step.k = "sendCramMd5"
    THEN Append(cramMd5Token(d, msgBody), "\r\n")
    ELSE Append(Step.data, "\r\n")

\* what pn_isAllowedToSend logs when it refuses: the pending lines
SendRefused(buf) ==
    <<(<<"send fail, found unexpected data available to be read, was:">>)>>
        \o [i \in 1 .. Len(buf) |-> <<" > msg-line: %1", buf[i]>>]

\* what sendMessage logs when the message could not be written
WriteMsgFailed ==
    IF Step.k = "sendMime"
    THEN <<(<<"unexpected error, unable to write msg to socket">>)>>
    ELSE << >>

\* pn_sendMessage, both overloads
pn_sendMessage ==
    /\ Running({"send", "sendCramMd5", "sendMime"})
    /\ IF ~pn_isAllowedToSend(sock.rbuf)
       THEN CloseAndFail(SendRefused(sock.rbuf) \o WriteMsgFailed)
       ELSE IF Step.k = "sendMime" /\ ~MimeMessage_writeToDev_ok(msg)
       THEN CloseAndFail(WriteMsgFailed)
       ELSE /\ trace' = Append(trace, <<"write", SendBytes>>)
            /\ nstale' = Len(sock.rbuf) + Len(net)
            /\ staleAccepted' = FALSE
            /\ Advance
            /\ UNCHANGED <<sock, net, op, msg, msgBody, aborted, PureVars>>

\* pn_waitForResponse: waitForReadyRead times out
pn_waitForResponse_timeout ==
    /\ Running(WaitKinds)
    /\ CloseAndFail(
            <<(<<"unable to wait for server response, connection timout">>)>>)

\* pn_waitForResponse: waitForReadyRead brings n more lines into the read
\* buffer, then the lines of the buffer are read
pn_waitForResponse_read(n) ==
    /\ Running(WaitKinds)
    /\ n \in 1 .. Len(net)
    /\ LET buf == sock.rbuf \o SubSeq(net, 1, n)
           r == pn_waitForResponse(buf, Step.code)
           used == Len(buf) - Len(r.rest)
       IN  IF r.res = "bad"
           THEN CloseAndFail(
                    <<<<"invalid response, expected %1, received: %2",
                        Step.code, trimmed(buf[used])>>>>)
           ELSE /\ sock' = [sock EXCEPT !.rbuf = r.rest]
                /\ net' = SubSeq(net, n + 1, Len(net))
                /\ nstale' = Max(0, nstale - used)
                /\ UNCHANGED <<op, msg, aborted, PureVars>>
                /\ IF r.res = "ok"
                   THEN /\ msgBody' = IF Step.k = "waitBody" THEN r.body
                                                            ELSE msgBody
                        /\ staleAccepted' = (used <= nstale)
                        /\ trace' = Append(trace, <<"reply", Step.code>>)
                        /\ Advance
                   ELSE UNCHANGED <<d, pc, ret, trace, msgBody, warnings,
                                    staleAccepted, nsent>>

\* startClientEncryption, waitForEncrypted returns true
startClientEncryption_ok ==
    /\ Running({"startClientEncryption"})
    /\ sock' = [sock EXCEPT !.encrypted = TRUE]
    /\ trace' = Append(trace, <<"encrypted">>)
    /\ Advance
    /\ UNCHANGED <<net, nstale, op, msg, msgBody, staleAccepted, aborted,
                   PureVars>>

\* startClientEncryption, waitForEncrypted returns false
startClientEncryption_fail ==
    /\ Running({"startClientEncryption"})
    /\ CloseAndFail(
            <<(<<"unable to upgrade to encrypted mode, error: %1">>)>>)

\* sendMessage up to its first write
sendMessage(m) ==
    /\ Idle
    /\ nsent < MaxSent
    /\ IF sendMessage_check(d, m) # ""
       THEN ReturnEarly("sendMessage", m, sendMessage_check(d, m))
       ELSE Begin("sendMessage", m) /\ UNCHANGED SocketVars

\* closeConnection saying goodbye to the server first
closeConnection_quit ==
    /\ Idle
    /\ IF d.status # "ST_Connected"
       THEN UNCHANGED <<d, SocketVars, nsent, trace>>
       ELSE /\ d' = pn_closeAndFail(d).d
            /\ sock' = pn_closeAndFail(d).sock
            /\ net' = << >>
            /\ nstale' = 0
            /\ nsent' = 0
            /\ trace' = <<(<<"write", <<"QUIT", "\r\n">>>>)>>
    /\ pc' = pc
    /\ op' = "closeConnection"
    /\ msg' = MimeMessage0
    /\ ret' = FALSE
    /\ msgBody' = << >>
    /\ warnings' = << >>
    /\ staleAccepted' = FALSE
    /\ UNCHANGED <<aborted, PureVars>>

closeConnection ==
    /\ Idle
    /\ IF d.status # "ST_Connected"
       THEN UNCHANGED <<d, SocketVars, nsent>>
       ELSE /\ d' = pn_closeAndFail(d).d
            /\ sock' = pn_closeAndFail(d).sock
            /\ net' = << >>
            /\ nstale' = 0
            /\ nsent' = 0
    /\ Called("closeConnection")
    /\ UNCHANGED <<aborted, PureVars>>

-----------------------------------------------------------------------------
(* A MimeMessage built and serialised on its own.  msg is the message,     *)
(* trace the parts handed to addMimePart so far, arg and res the call made *)
(* last and what it returned.                                              *)

\* most To recipients, most Cc recipients, most parts handed to addMimePart
MaxRecipients == 2

MaxCc == 1

MaxParts == 2

\* everything but the message and the calls made on it
DriverVars == <<d, sock, net, nstale, pc, op, ret, msgBody, warnings,
                staleAccepted, aborted, nsent,
                log>>

EmptyAddress == EmailAddress(<< >>, "")

\* the texts the calls are made with
BodyTexts == {"", "a=b"}

Subjects == {"", "subject"}

\* an address new gives to an object: one no live part of the message has
NewId(m) ==
    CHOOSE i \in 1 .. (Len(m.d_multiPart) + 1) :
        /\ \A k \in 1 .. Len(m.d_multiPart) : m.d_multiPart[k].id # i
        /\ \A j \in 1 .. (i - 1) :
                \E k \in 1 .. Len(m.d_multiPart) : m.d_multiPart[k].id = j

\* the content of a file: 60 bytes, more than one line of base64 takes
FileContent ==
    "aaaaaaaaaaaaaaaaaaaaaaaaaaaaaaaaaaaaaaaaaaaaaaaaaaaaaaaaaaaa"

\* the parts addMimePart is called with, as constructed, the address left
\* open: an attachment with content and a file without content; an
\* attachment with more content and an inline file whose name has two types
\* in the MIME database
ConstructedParts ==
    {MimeAttachmentFile(0, "data", "report"), MimeFile(0, "", "report")}

ConstructedFiles ==
    {MimeAttachmentFile(0, FileContent, "report.pdf"),
     MimeInlineFile(0, "b", "x.m")}

\* the parts addMimePart is called with, allocated at address id
NewParts(id) == {[p EXCEPT !.id = id] : p \in ConstructedParts}

NewFiles(id) == {[p EXCEPT !.id = id] : p \in ConstructedFiles}

\* a call that returns nothing was made on the message
Built(m) ==
    /\ pc = 0
    /\ msg' = m
    /\ arg' = NoCall
    /\ res' = NoResult
    /\ UNCHANGED <<DriverVars, trace>>

setSenderAddress(sender) == Built([msg EXCEPT !.d_senderAddress = sender])

setReplyToAddress(replyTo) == Built([msg EXCEPT !.d_replyToAddress = replyTo])

addToRecipient(to) ==
    /\ Len(msg.d_toAddresses) < MaxRecipients
    /\ Built([msg EXCEPT !.d_toAddresses = Append(@, to)])

addCcRecipient(cc) ==
    /\ Len(msg.d_ccAddresses) < MaxCc
    /\ Built([msg EXCEPT !.d_ccAddresses = Append(@, cc)])

\* setToRecipients: the list takes the place of the one there is
setToRecipients(to) == Built([msg EXCEPT !.d_toAddresses = to])

\* setCcRecipients: the list takes the place of the one there is
setCcRecipients(cc) == Built([msg EXCEPT !.d_ccAddresses = cc])

setMessageSubject(text) == Built([msg EXCEPT !.d_messageSubject = text])

\* ScopedPtrList::dropFirst
dropFirst(parts) == Tail(parts)

\* the message once the body there is was dropped
dropFirstBody(m) ==
    IF m.d_messageBody # 0
    THEN [m EXCEPT !.d_multiPart = dropFirst(@), !.d_messageBody = 0]
    ELSE m

\* the body setters: drop the body there is, prepend the new one if any
setMessageBody(m, part, text) ==
    LET dropped == dropFirstBody(m)
    IN  IF text # ""
        THEN [dropped EXCEPT !.d_messageBody = part.id,
                             !.d_multiPart = <<part>> \o @]
        ELSE dropped

\* a body setter was called
BodySet(f, m, text) ==
    /\ pc = 0
    /\ msg' = m
    /\ arg' = [f |-> f, text |-> text, had |-> msg.d_messageBody # 0]
    /\ res' = NoResult
    /\ UNCHANGED <<DriverVars, trace>>

\* setMessageBodyText putting the new body behind the other parts
setMessageBodyText_append(text) ==
    BodySet("setMessageBodyText",
            LET m == setMessageBody(
                        msg, MimeText(NewId(dropFirstBody(msg)), text), text)
            IN  IF m.d_messageBody # 0 /\ Len(m.d_multiPart) > 1
                THEN [m EXCEPT !.d_multiPart = Tail(@) \o <<Head(@)>>]
                ELSE m,
            text)

setMessageBodyText(text) ==
    BodySet("setMessageBodyText",
            setMessageBody(msg, MimeText(NewId(dropFirstBody(msg)), text),
                           text),
            text)

setMessageBodyHtml(html) ==
    BodySet("setMessageBodyHtml",
            setMessageBody(msg, MimeHtml(NewId(dropFirstBody(msg)), html),
                           html),
            html)

addMimePart(part) ==
    /\ pc = 0
    /\ Len(trace) < MaxParts
    /\ msg' = [msg EXCEPT !.d_multiPart = Append(@, part)]
    /\ trace' = Append(trace, <<"addMimePart", part>>)
    /\ arg' = NoCall
    /\ res' = NoResult
    /\ UNCHANGED DriverVars

\* the pointers the caller handed to addMimePart and still holds, each with
\* the object it points to
HeldParts == {trace[i][2] : i \in 1 .. Len(trace)}

\* the fields of a part the public setters assign
PartFields ==
    {"contentType", "contentName", "contentCharset", "contentEncoding",
     "disposition"}

\* the part as its constructor left it; the constructors are called with
\* contents that differ
AsConstructed(part) ==
    CHOOSE q \in ConstructedParts \cup ConstructedFiles : q.data = part.data

\* the fields of the parts that no longer hold what the constructor set
EditedFields(parts) ==
    {x \in parts \X PartFields : x[1][x[2]] # AsConstructed(x[1])[x[2]]}

\* most fields of the held parts that differ from what the constructors set
MaxPartEdits == 1

\* the list of parts or of calls once field f of the object at address id
\* holds v
assigned(parts, id, f, v) ==
    [i \in 1 .. Len(parts) |->
        IF parts[i].id = id THEN [parts[i] EXCEPT ![f] = v] ELSE parts[i]]

\* a setter of the part a held pointer points to assigned v to its field f:
\* the object is the one the multipart holds, at every position it has
MimePart_set(part, f, v) ==
    /\ pc = 0
    /\ part \in HeldParts
    /\ Cardinality(EditedFields(
            {[q EXCEPT ![f] = IF q.id = part.id THEN v ELSE @] :
                q \in HeldParts})) <= MaxPartEdits
    /\ msg' = [msg EXCEPT !.d_multiPart = assigned(@, part.id, f, v)]
    /\ trace' = [i \in 1 .. Len(trace) |->
                    <<trace[i][1],
                      IF trace[i][2].id = part.id
                      THEN [trace[i][2] EXCEPT ![f] = v] ELSE trace[i][2]>>]
    /\ arg' = NoCall
    /\ res' = NoResult
    /\ UNCHANGED DriverVars

\* MimePart::setContentType
MimePart_setContentType(part, contentType) ==
    MimePart_set(part, "contentType", contentType)

\* MimePart::setContentName
MimePart_setContentName(part, name) ==
    MimePart_set(part, "contentName", setContentName(name))

\* MimePart::setContentCharset
MimePart_setContentCharset(part, charset) ==
    MimePart_set(part, "contentCharset", charset)

\* MimePart::setContentTransferEncoding
MimePart_setContentTransferEncoding(part, encoding) ==
    MimePart_set(part, "contentEncoding", encoding)

\* MimeFile::setDisposition
MimeFile_setDisposition(part, disposition) ==
    /\ part.class = "MimeFile"
    /\ MimePart_set(part, "disposition", disposition)

\* the values of MimePart::ContentTransferEncoding
ContentTransferEncodings ==
    {"ContentNotEncoded", "ContentBase64Encoded",
     "ContentQuotedPrintableEncoded"}

\* the values of MimeFile::Disposition
Dispositions == {"NoDisposition", "DisposeInline", "DisposeAsAttachment"}

\* ScopedPtrList::clear on the children of the multipart: the addresses
\* delete is called on, in order
clear(parts) == [i \in 1 .. Len(parts) |-> parts[i].id]

\* an address occurs twice among those deleted
DeletedTwice(deleted) ==
    \E i, j \in 1 .. Len(deleted) : i # j /\ deleted[i] = deleted[j]

\* the message goes out of scope and another one is constructed; deleting
\* an object a second time is undefined: the program may crash or go on
MimeMessage_destroy ==
    /\ pc = 0
    /\ msg.d_multiPart # << >>
    /\ \E crashed \in (IF DeletedTwice(clear(msg.d_multiPart))
                        THEN BOOLEAN ELSE {FALSE}) :
            res' = [done |-> TRUE,
                    val |-> [deleted |-> clear(msg.d_multiPart),
                             crashed |-> crashed]]
    /\ arg' = [f |-> "MimeMessage::~MimeMessage"]
    /\ msg' = MimeMessage0
    /\ trace' = << >>
    /\ UNCHANGED DriverVars

\* a function was called that changes nothing and returns val
Returned(a, val) ==
    /\ pc = 0
    /\ arg' = a
    /\ res' = [done |-> TRUE, val |-> val]
    /\ UNCHANGED <<DriverVars, msg, trace>>

isValid_call ==
    Returned([f |-> "MimeMessage::isValid"], MimeMessage_isValid(msg))

writeToDev_call ==
    Returned([f |-> "MimeMessage::writeToDev"], MimeMessage_writeToDev(msg))

\* writeToDev of a multipart that has the children of the message's
MimeMultiPartMixed_writeToDev_call ==
    Returned([f |-> "MimeMultiPartMixed::writeToDev"],
             MimeMultiPartMixed_writeToDev(msg.d_multiPart, CreatedUuid))

encodeEmailAddress_call(email) ==
    Returned([f |-> "encodeEmailAddress", email |-> email],
             encodeEmailAddress(email, MaxMimeWordSize))

encodeEmailAddresses_call(emails) ==
    Returned([f |-> "encodeEmailAddresses", emails |-> emails],
             encodeEmailAddresses(emails, MaxMimeWordSize))

-----------------------------------------------------------------------------
(* The environment: the server, and the event loop of the application.     *)

\* the server writes a line to the connection
ServerWrite(line) ==
    /\ ~aborted
    /\ sock.state = "ConnectedState"
    /\ Len(sock.rbuf) + Len(net) < MaxPending
    /\ net' = Append(net, line)
    /\ UNCHANGED <<d, sock, nstale, CallVars, aborted, nsent, PureVars>>

\* the server writes the expected reply, once the client waits for it
ServerReply ==
    /\ Running(WaitKinds)
    /\ net = << >>
    /\ ServerWrite(ReplyLine(Step.code))

\* between two calls the event loop moves n arrived lines to the read buffer
processEvents(n) ==
    /\ Idle
    /\ sock.state = "ConnectedState"
    /\ n \in 1 .. Len(net)
    /\ sock' = [sock EXCEPT !.rbuf = @ \o SubSeq(net, 1, n)]
    /\ net' = SubSeq(net, n + 1, Len(net))
    /\ UNCHANGED <<d, nstale, CallVars, aborted, nsent, PureVars>>

-----------------------------------------------------------------------------

\* what pn_waitForResponse may be called with on its own
ReaderLines ==
    {Line220, Line235, Line250, Line250Cont, Line334, Line354, Line550,
     Line550Cont, Line250Empty, Line250Bare, Line250Junk, Line250FormFeed,
     LineFormFeed250}

ReaderCodes == {C220, C235, C250, C334, C354}

\* most lines in the read buffer of such a call
MaxLines == 3

RECURSIVE SeqsUpTo(_, _)
SeqsUpTo(S, n) ==
    IF n = 0 THEN {<< >>}
    ELSE SeqsUpTo(S, n - 1)
            \cup {Append(q, x) : q \in {r \in SeqsUpTo(S, n - 1) :
                                            Len(r) = n - 1}, x \in S}

\* pn_waitForResponse called on the lines arg.buf of the read buffer
pn_waitForResponse_call ==
    /\ arg.f = "pn_waitForResponse"
    /\ ~res.done
    /\ res' = [done |-> TRUE,
               val |-> pn_waitForResponse(arg.buf, arg.expectedCode)]
    /\ UNCHANGED <<ClientVars, arg>>

(* The encoders of MimeUtils called on their own: arg is the call, res     *)
(* what it returned.                                                       *)

\* longest text, largest line or word size a call is made with
MaxTextLen == 3

MaxSizeArg == 6

\* the code points of the characters the texts are made of:
\* 'a', '7', '=', space, line feed, e with acute accent
TextCodes == {97, 55, 61, 32, 10, 233}

\* QChar(code)
QChar(code) ==
    CASE code = 97 -> "a" [] code = 55 -> "7" [] code = 61 -> "="
      [] code = 32 -> " " [] code = 10 -> "\n" [] code = 233 -> "é"

\* the string of the characters of a sequence
RECURSIVE StringOf(_)
StringOf(chars) ==
    IF chars = << >> THEN "" ELSE Head(chars) \o StringOf(Tail(chars))

\* QString(const QChar *, size): the text that has the given code points
QString(codes) == StringOf([i \in 1 .. Len(codes) |-> QChar(codes[i])])

\* the texts, each given by its code points
Texts == SeqsUpTo(TextCodes, MaxTextLen)

\* byte strings: the texts without a character above U+007F as they are,
\* and every text quoted-printable encoded
ByteStrings ==
    {QString(t) : t \in {u \in Texts : \A i \in 1 .. Len(u) : u[i] < 128}}
        \cup {encodeQuotedPrintable(QString(t)) : t \in Texts}

\* the call arg.f returns val
Applied(f, val) ==
    /\ arg.f = f
    /\ ~res.done
    /\ res' = [done |-> TRUE, val |-> val]
    /\ UNCHANGED <<ClientVars, arg>>

encodeQuotedPrintable_call ==
    Applied("encodeQuotedPrintable", encodeQuotedPrintable(QString(arg.text)))

formatQuotedPrintableIntoLines_call ==
    Applied("formatQuotedPrintableIntoLines",
            formatQuotedPrintableIntoLines(arg.encoded, arg.maxLineSize))

formatDataIntoLines_call ==
    Applied("formatDataIntoLines",
            formatDataIntoLines(arg.data, arg.maxLineSize))

\* QString::replace(before, after), before not empty: every occurrence of
\* before, from the left, what was put in not being looked at again; the
\* texts are strings, or sequences of code points
RECURSIVE replace(_, _, _)
replace(s, before, after) ==
    IF Len(s) < Len(before) THEN s
    ELSE IF SubSeq(s, 1, Len(before)) = before
    THEN after \o replace(SubSeq(s, Len(before) + 1, Len(s)), before, after)
    ELSE SubSeq(s, 1, 1) \o replace(Tail(s), before, after)

\* RTLogHandler(context, type, msg), as far as operator% goes
RTLogHandler(text) == [msg |-> text, index |-> 0]

\* RTLogHandler::operator%(const QString &arg)
RTLogHandler_arg(h, a) ==
    [msg |-> replace(h.msg, "%" \o ToString(h.index + 1), a),
     index |-> h.index + 1]

\* the code points of a text of bytes below 128
Codes(s) == [i \in 1 .. Len(s) |-> ByteValue[CharAt(s, i)]]

\* a QVariant, as far as operator% looks at it: isValid(), typeName(),
\* toString() and isNull()
QVariant(typeName, text, null) ==
    [isValid |-> TRUE, typeName |-> typeName, toString |-> text,
     isNull |-> null]

\* QVariant(const QString &)
QVariant_QString(text) == QVariant("QString", text, FALSE)

\* QVariant()
QVariant_Invalid ==
    [isValid |-> FALSE, typeName |-> "", toString |-> "", isNull |-> TRUE]

\* the text operator%(const QVariant &) puts in, as code points:
\* QString("QVariant(%1, `%2`, null? %3)").arg(type, toString, null)
QVariant_log(v) ==
    Codes("QVariant("
            \o (IF v.isValid THEN v.typeName ELSE "Invalid") \o ", ")
        \o <<96>> \o Codes(v.toString) \o <<96>>
        \o Codes(", null? " \o (IF v.isNull THEN "true" ELSE "false") \o ")")

\* RTLogHandler::operator%(const QVariant &arg), the message of the handler
\* being a sequence of code points
RTLogHandler_argVariant(h, v) ==
    [msg |-> replace(h.msg, Codes("%" \o ToString(h.index + 1)),
                     QVariant_log(v)),
     index |-> h.index + 1]

\* RT_DEBUG(msg) % QVariant % QVariant ...: the handler after the last %
RECURSIVE RTLogHandler_argsVariant(_, _)
RTLogHandler_argsVariant(h, args) ==
    IF args = << >> THEN h
    ELSE RTLogHandler_argsVariant(RTLogHandler_argVariant(h, Head(args)),
                                  Tail(args))

\* RT_DEBUG(msg) % args[1] % args[2] ...: the handler after the last %
RECURSIVE RTLogHandler_args(_, _)
RTLogHandler_args(h, args) ==
    IF args = << >> THEN h
    ELSE RTLogHandler_args(RTLogHandler_arg(h, Head(args)), Tail(args))

\* most arguments of a log message
MaxLogArgs == 2

\* the messages and the arguments the handler is called with
LogMessages == {"x", "%1", "%1-%2", "%2-%1", "%1%1", "%10"}

LogArgs == {"", "a", "%2"}

RTLogHandler_call ==
    Applied("RTLogHandler::operator%",
            RTLogHandler_args(RTLogHandler(arg.msg), arg.args).msg)

\* the QVariant arguments the handler is called with
LogVariants ==
    {QVariant_QString(a) : a \in LogArgs} \cup {QVariant_Invalid}

\* the handler called with QVariant arguments: what it returns is its
\* message, as code points
RTLogHandler_variant_call ==
    Applied("RTLogHandler::operator%(QVariant)",
            RTLogHandler_argsVariant(RTLogHandler(Codes(arg.msg)),
                                     arg.args).msg)

\* the word sizes the calls are made with: 0, and up to MaxSizeArg bytes
\* between "=?utf-8?Q?" and "?="
WordSizes ==
    {0} \cup {Len("=?utf-8?Q?") + n + Len("?=") : n \in 0 .. MaxSizeArg}

encodeMimeWordQ_call ==
    Applied("encodeMimeWordQ",
            encodeMimeWordQ(QString(arg.text), arg.maxWordSize))

encodeMimeWordB_call ==
    Applied("encodeMimeWordB",
            encodeMimeWordB(QString(arg.text), arg.maxWordSize))

\* the while loop of encodeMimeWordQ and encodeMimeWordB taken one iteration
\* at a time: res holds maxEncodedTextSize and the chunks of the iteration
\* made last

\* longest text the loop is followed on
MaxWordText == 5

\* the code points of those texts: one written as it is, one escaped
WordTextCodes == {97, 61}

\* the reduction of maxEncodedTextSize rounding down
encodeMimeWord_reduce_floor(maxEncodedTextSize) == maxEncodedTextSize \div 2

\* the reduction of maxEncodedTextSize at the end of an iteration
encodeMimeWord_reduce(maxEncodedTextSize) ==
    (maxEncodedTextSize \div 2) + (maxEncodedTextSize % 2)

\* the encoded word of a chunk
encodeMimeWord_word(f, textChunk) ==
    IF f = "encodeMimeWordQ"
    THEN "=?utf-8?Q?" \o encodeQuotedPrintable(textChunk) \o "?="
    ELSE "=?utf-8?B?" \o QByteArray_toBase64(toUtf8(textChunk)) \o "?="

\* std::max over the sizes of the words
longestWordSize(words) ==
    IF words = << >> THEN 0
    ELSE CHOOSE n \in {Len(words[i]) : i \in 1 .. Len(words)} :
            \A i \in 1 .. Len(words) : Len(words[i]) <= n

InWordLoop == ~res.done /\ "maxEncodedTextSize" \in DOMAIN res

\* the function up to its loop
encodeMimeWord_enter ==
    /\ arg.f \in {"encodeMimeWordQ", "encodeMimeWordB"}
    /\ ~res.done
    /\ ~InWordLoop
    /\ res' = IF QString(arg.text) = ""
              THEN [done |-> TRUE, val |-> ""]
              ELSE [done |-> FALSE,
                    maxEncodedTextSize |-> Len(QString(arg.text)),
                    chunks |-> << >>]
    /\ UNCHANGED <<ClientVars, arg>>

\* one iteration of the loop
encodeMimeWord_iterate ==
    /\ arg.f \in {"encodeMimeWordQ", "encodeMimeWordB"}
    /\ InWordLoop
    /\ \E chunks \in {pn_splitTextIntoChunks(QString(arg.text),
                                              res.maxEncodedTextSize)} :
       \E words \in {[i \in 1 .. Len(chunks) |->
                        encodeMimeWord_word(arg.f, chunks[i])]} :
            res' = IF longestWordSize(words) <= arg.maxWordSize
                        \/ res.maxEncodedTextSize <= 1
                   THEN [done |-> TRUE, val |-> join(words, "\r\n "),
                         maxEncodedTextSize |-> res.maxEncodedTextSize,
                         chunks |-> chunks]
                   ELSE [done |-> FALSE,
                         maxEncodedTextSize |->
                            encodeMimeWord_reduce(res.maxEncodedTextSize),
                         chunks |-> chunks]
    /\ UNCHANGED <<ClientVars, arg>>

-----------------------------------------------------------------------------
(* The log sink: threads of the process destroying RTLogHandler objects.   *)

\* most threads that log, most records they log together
MaxProducers == 2

MaxRecords == 3

Producers == 1 .. MaxProducers

\* RTLOGHANDLER_FORMAT
RTLOGHANDLER_FORMAT == "[%type] > [%datetime] [%file:%line] - %msg\n"

\* toString(RTLogHandler::Type)
toString(type) ==
    CASE type = "Debug" -> "DEBUG" [] type = "Warning" -> "WARNING"
      [] type = "Critical" -> "CRITICAL" [] type = "Fatal" -> "FATAL"

\* QDateTime::currentDateTime().toString(Qt::ISODate) at the call
CurrentDateTimeISO == "2026-01-01T00:00:00"

\* the record ~RTLogHandler computes
FormatRecord(type, context, text) ==
    replace(replace(replace(replace(replace(replace(
        RTLOGHANDLER_FORMAT,
        "%type", toString(type)),
        "%datetime", CurrentDateTimeISO),
        "%file", context.file),
        "%line", ToString(context.line)),
        "%fnc", context.fnc),
        "%msg", text)

\* the size above which the log file is put aside
MaxLogSize == 2 * 1024 * 1024

\* a handler no destructor of which runs
NoHandler == [pc |-> "none", type |-> "Debug", record |-> "", done |-> 0]

\* a file that does not exist
NoFile == [exists |-> FALSE, size |-> 0, records |-> << >>]

\* the sink when no thread logs: the log file has size bytes written by
\* earlier runs
LogSink(size) ==
    [mutex |-> 0,
     started |-> 0,
     h |-> [p \in Producers |-> NoHandler],
     stderr |-> << >>,
     file |-> IF size = 0 THEN NoFile
              ELSE [exists |-> TRUE, size |-> size, records |-> << >>],
     bak |-> NoFile]

\* the sink of a process that does not log
NoLog == LogSink(0)

\* everything but the sink and aborted
NoLogVars == <<d, sock, net, nstale, pc, op, msg, ret, trace, msgBody,
               warnings, staleAccepted, nsent, arg, res>>

\* thread p is at step at of ~RTLogHandler and goes to step to
LogStep(p, at, to, sink) ==
    /\ ~aborted
    /\ log.h[p].pc = at
    /\ log' = [sink EXCEPT !.h[p].pc = to]
    /\ UNCHANGED <<NoLogVars, aborted>>

\* the destructor of a handler of the given type runs in thread p
RTLogHandler_dtor(p, type) ==
    /\ log.started < MaxRecords
    /\ LogStep(p, "none", "lock",
               [log EXCEPT !.h[p].type = type, !.started = @ + 1])

\* QMutexLocker locker (&mutex) without waiting for the mutex
QMutexLocker_noWait(p) ==
    LogStep(p, "lock", "format", [log EXCEPT !.mutex = p])

\* QMutexLocker locker (&mutex)
QMutexLocker(p) ==
    /\ log.mutex = 0
    /\ LogStep(p, "lock", "format", [log EXCEPT !.mutex = p])

\* the record is computed
RTLogHandler_format(p) ==
    LogStep(p, "format", "fprintf",
            [log EXCEPT !.h[p].record =
                FormatRecord(log.h[p].type,
                             [file |-> "main.cpp", line |-> p, fnc |-> "f"],
                             "m" \o ToString(log.h[p].done + 1))])

\* fprintf(stderr, "%s", ...): the stream takes the record in two writes
fprintf_first(p) ==
    LET rec == log.h[p].record
        n == Len(rec) \div 2
    IN  LogStep(p, "fprintf", "fflush",
                [log EXCEPT !.stderr =
                    Append(@, [p |-> p, k |-> log.h[p].done + 1, part |-> 1,
                               text |-> SubSeq(rec, 1, n)])])

fprintf_rest(p) ==
    LET rec == log.h[p].record
        n == Len(rec) \div 2
    IN  LogStep(p, "fflush", "rotate",
                [log EXCEPT !.stderr =
                    Append(@, [p |-> p, k |-> log.h[p].done + 1, part |-> 2,
                               text |-> SubSeq(rec, n + 1, Len(rec))])])

\* the log file is put aside when larger than MaxLogSize: remove() of the
\* backup and rename() of the log file each succeed or fail, their results
\* are not looked at, and rename() fails when the backup is still there
rotate(p, removed, renamed) ==
    LogStep(p, "rotate", "append",
            IF log.file.exists /\ log.file.size > MaxLogSize
            THEN LET bak == IF removed THEN NoFile ELSE log.bak
                 IN  IF renamed /\ ~bak.exists
                     THEN [log EXCEPT !.bak = log.file, !.file = NoFile]
                     ELSE [log EXCEPT !.bak = bak]
            ELSE log)

\* the record is appended to the log file, if the file can be opened
append(p, opened) ==
    LogStep(p, "append", "leave",
            IF opened
            THEN [log EXCEPT !.file =
                    [exists |-> TRUE,
                     size |-> @.size + Len(log.h[p].record),
                     records |-> Append(@.records,
                                    [p |-> p, k |-> log.h[p].done + 1,
                                     text |-> log.h[p].record])]]
            ELSE log)

\* std::abort() for a Fatal record, else the destructor returns and the
\* mutex is unlocked
leave(p) ==
    /\ ~aborted
    /\ log.h[p].pc = "leave"
    /\ IF log.h[p].type = "Fatal"
       THEN aborted' = TRUE /\ UNCHANGED log
       ELSE /\ log' = [log EXCEPT !.mutex = 0,
                                  !.h[p] = [NoHandler EXCEPT
                                                !.done = log.h[p].done + 1]]
            /\ UNCHANGED aborted
    /\ UNCHANGED NoLogVars

ClientInit ==
    /\ d = PrivateData0
    /\ sock = SocketClosed
    /\ net = << >>
    /\ nstale = 0
    /\ pc = 0
    /\ op = "none"
    /\ msg = MimeMessage0
    /\ ret = FALSE
    /\ trace = << >>
    /\ msgBody = << >>
    /\ warnings = << >>
    /\ staleAccepted = FALSE
    /\ aborted = FALSE
    /\ nsent = 0

Init ==
    /\ ClientInit
    /\ arg = NoCall
    /\ res = NoResult
    /\ log = NoLog

\* the setters whose values decide what connectToServer does
SetConnection ==
    \/ \E host \in Hosts : setServerHost(host)
    \/ \E port \in Ports : setServerPort(port)
    \/ \E host \in ClientHosts : setClientHost(host)
    \/ \E type \in ConnectionTypes : setConnectionType(type)
    \/ \E user \in Users : setAccountUser(user)
    \/ \E password \in Passwords : setAccountPassword(password)
    \/ \E method \in AuthMethods : setAuthMethod(method)

\* the setters of the timeouts, which bound waits whose outcome is open here
\* anyway, and of the traffic log, which only adds log records
SetTuning ==
    \/ \E msec \in Timeouts : setConnectionTimeout(msec)
    \/ \E msec \in Timeouts : setResponseTimeout(msec)
    \/ \E msec \in Timeouts : setSendTimeout(msec)
    \/ \E on \in BOOLEAN : setSocketTrafficLogEnabled(on)

\* the calls and their steps on the socket
Drive ==
    \/ connectToServer
    \/ waitForConnected_ok
    \/ waitForConnected_fail
    \/ pn_sendMessage
    \/ pn_waitForResponse_timeout
    \/ \E n \in 1 .. MaxPending : pn_waitForResponse_read(n)
    \/ startClientEncryption_ok
    \/ startClientEncryption_fail
    \/ \E m \in Messages : sendMessage(m)
    \/ closeConnection

\* the client against a server that writes what and when it wants
Next ==
    \/ SetConnection
    \/ Drive
    \/ \E line \in ServerLines : ServerWrite(line)
    \/ \E n \in 1 .. MaxPending : processEvents(n)

Spec == Init /\ [][Next]_vars

\* a blocking call does not pause: its next step on the socket is taken, and
\* every wait on the transport ends, with data or with a timeout
Blocking ==
    /\ WF_vars(waitForConnected_ok \/ waitForConnected_fail)
    /\ WF_vars(pn_sendMessage)
    /\ WF_vars(pn_waitForResponse_timeout
                \/ \E n \in 1 .. MaxPending : pn_waitForResponse_read(n))
    /\ WF_vars(startClientEncryption_ok \/ startClientEncryption_fail)

SpecLive == Spec /\ Blocking

\* every setter, against a server that answers each command as expected
NextConfig ==
    \/ SetConnection
    \/ SetTuning
    \/ Drive
    \/ ServerReply

SpecConfig == Init /\ [][NextConfig]_vars

\* the response reader on its own, on every buffer of up to MaxLines lines
InitReader ==
    /\ ClientInit
    /\ arg \in {[f |-> "pn_waitForResponse", buf |-> b, expectedCode |-> c] :
                    b \in SeqsUpTo(ReaderLines, MaxLines), c \in ReaderCodes}
    /\ res = NoResult
    /\ log = NoLog

NextReader == pn_waitForResponse_call

SpecReader == InitReader /\ [][NextReader]_vars

\* the encoders on their own, on every text of up to MaxTextLen characters
\* and every size up to MaxSizeArg
InitEncode ==
    /\ ClientInit
    /\ arg \in {[f |-> "encodeQuotedPrintable", text |-> t] : t \in Texts}
            \cup {[f |-> "formatQuotedPrintableIntoLines", encoded |-> e,
                   maxLineSize |-> n] :
                        e \in ByteStrings, n \in -1 .. MaxSizeArg}
            \cup {[f |-> "formatDataIntoLines", data |-> e,
                   maxLineSize |-> n] :
                        e \in ByteStrings, n \in -1 .. MaxSizeArg}
            \cup {[f |-> g, text |-> t, maxWordSize |-> n] :
                        g \in {"encodeMimeWordQ", "encodeMimeWordB"},
                        t \in Texts, n \in WordSizes}
            \cup {[f |-> "RTLogHandler::operator%", msg |-> t, args |-> a] :
                        t \in LogMessages,
                        a \in SeqsUpTo(LogArgs, MaxLogArgs)}
            \cup {[f |-> "RTLogHandler::operator%(QVariant)", msg |-> t,
                   args |-> a] :
                        t \in LogMessages,
                        a \in SeqsUpTo(LogVariants, MaxLogArgs)}
    /\ res = NoResult
    /\ log = NoLog

NextEncode ==
    \/ encodeQuotedPrintable_call
    \/ formatQuotedPrintableIntoLines_call
    \/ formatDataIntoLines_call
    \/ encodeMimeWordQ_call
    \/ encodeMimeWordB_call
    \/ RTLogHandler_call
    \/ RTLogHandler_variant_call

SpecEncode == InitEncode /\ [][NextEncode]_vars

\* threads logging, the log file being absent, close to MaxLogSize or
\* above it at the start, with or without a backup of an earlier rotation
InitLog ==
    /\ ClientInit
    /\ arg = NoCall
    /\ res = NoResult
    /\ log \in {[LogSink(size) EXCEPT !.bak = bak] :
                    size \in {0, MaxLogSize - 1, MaxLogSize + 1},
                    bak \in {NoFile, [exists |-> TRUE, size |-> MaxLogSize + 1,
                                      records |-> << >>]}}

NextLog ==
    \E p \in Producers :
        \/ \E type \in {"Debug", "Fatal"} : RTLogHandler_dtor(p, type)
        \/ QMutexLocker(p)
        \/ RTLogHandler_format(p)
        \/ fprintf_first(p)
        \/ fprintf_rest(p)
        \/ \E removed, renamed \in BOOLEAN : rotate(p, removed, renamed)
        \/ \E opened \in BOOLEAN : append(p, opened)
        \/ leave(p)

SpecLog == InitLog /\ [][NextLog]_vars

\* the loop of the encoded words on its own, on every text of up to
\* MaxWordText characters
InitWordLoop ==
    /\ ClientInit
    /\ arg \in {[f |-> f, text |-> t, maxWordSize |-> n] :
                    f \in {"encodeMimeWordQ", "encodeMimeWordB"},
                    t \in SeqsUpTo(WordTextCodes, MaxWordText),
                    n \in WordSizes}
    /\ res = NoResult
    /\ log = NoLog

NextWordLoop ==
    \/ encodeMimeWord_enter
    \/ encodeMimeWord_iterate

\* a call that is running makes its next iteration
SpecWordLoop ==
    InitWordLoop /\ [][NextWordLoop]_vars /\ WF_vars(NextWordLoop)

\* a message built by its setters, each part added to it a new one, checked
\* and serialised
NextMime ==
    \/ \E a \in {AddrA, AddrNameOnly} : setSenderAddress(a)
    \/ \E a \in {EmptyAddress, AddrE, AddrNameOnly} : setReplyToAddress(a)
    \/ \E a \in {AddrC, AddrNameOnly} : addToRecipient(a)
    \/ \E to \in {<< >>, <<AddrNameOnly, AddrC>>} : setToRecipients(to)
    \/ \E a \in {AddrG, AddrNameOnly} : addCcRecipient(a)
    \/ \E cc \in {<< >>, <<AddrG>>} : setCcRecipients(cc)
    \/ \E text \in Subjects : setMessageSubject(text)
    \/ \E text \in BodyTexts : setMessageBodyText(text)
    \/ \E html \in BodyTexts : setMessageBodyHtml(html)
    \/ \E part \in NewParts(NewId(msg)) : addMimePart(part)
    \/ MimeMessage_destroy
    \/ isValid_call
    \/ writeToDev_call
    \/ encodeEmailAddress_call(msg.d_senderAddress)
    \/ encodeEmailAddress_call(msg.d_replyToAddress)
    \/ encodeEmailAddresses_call(msg.d_toAddresses)
    \/ encodeEmailAddresses_call(msg.d_ccAddresses)

SpecMime == Init /\ [][NextMime]_vars

\* a message with parts whose fields the caller goes on setting, and its
\* children serialised
NextParts ==
    \/ \E text \in BodyTexts : setMessageBodyText(text)
    \/ \E html \in BodyTexts : setMessageBodyHtml(html)
    \/ \E part \in NewFiles(NewId(msg)) \cup HeldParts : addMimePart(part)
    \/ \E part \in HeldParts :
            \/ \E t \in {"", "text/x"} : MimePart_setContentType(part, t)
            \/ \E n \in {"", "x y.txt"} : MimePart_setContentName(part, n)
            \/ MimePart_setContentCharset(part, "latin1")
            \/ \E e \in ContentTransferEncodings :
                    MimePart_setContentTransferEncoding(part, e)
            \/ \E dp \in Dispositions : MimeFile_setDisposition(part, dp)
    \/ MimeMessage_destroy
    \/ MimeMultiPartMixed_writeToDev_call

SpecParts == Init /\ [][NextParts]_vars

-----------------------------------------------------------------------------
(* Properties.                                                             *)

SendKinds == {"send", "sendCramMd5", "sendMime"}

\* this step appended a write to the socket to the trace
Wrote ==
    /\ Len(trace') = Len(trace) + 1
    /\ trace'[Len(trace')][1] = "write"

\* C1: the driver writes a command or a message payload only in a step that
\* found no complete line in the read buffer, and that step reads nothing.
C1_WriteOnlyWithoutBufferedLine ==
    [][Wrote => ~canReadLine(sock.rbuf) /\ sock' = sock]_vars

\* a message payload has just been written (after the commands before it)
C1_Witness ==
    /\ op = "sendMessage"
    /\ trace # << >>
    /\ trace[Len(trace)] = <<"write", MimeMessage_bytes(msg)>>

\* C2: an unsolicited terminal line the server wrote before MAIL FROM was sent
\* is never accepted as the reply to MAIL FROM, whenever it reaches the
\* client.
C2_NoStaleReplyToMailFrom ==
    ~(op = "sendMessage" /\ Len(trace) = 2 /\ staleAccepted)

\* the setters that test the status
C3_GatedSetter ==
    \/ \E host \in Hosts : setServerHost(host)
    \/ \E port \in Ports : setServerPort(port)
    \/ \E host \in ClientHosts : setClientHost(host)
    \/ \E user \in Users : setAccountUser(user)
    \/ \E password \in Passwords : setAccountPassword(password)
    \/ \E method \in AuthMethods : setAuthMethod(method)
    \/ \E msec \in Timeouts : setConnectionTimeout(msec)
    \/ \E msec \in Timeouts : setResponseTimeout(msec)
    \/ \E msec \in Timeouts : setSendTimeout(msec)

\* C3 as stated: while Connected every setter leaves every field unchanged
\* and returns.
C3_EverySetterIgnored ==
    [][(d.status = "ST_Connected" /\ (SetConnection \/ SetTuning))
            => (d' = d /\ ~aborted')]_vars

\* C3, amended: while Connected the setters of server host, server port,
\* client host, account user, account password, auth method and the three
\* timeouts change no field and return; setSocketTrafficLogEnabled returns
\* and changes the traffic log flag only; setConnectionType changes no field
\* and aborts the process.
C3_GatedSettersIgnored ==
    [][d.status = "ST_Connected" =>
        /\ C3_GatedSetter => (d' = d /\ ~aborted')
        /\ (\E on \in BOOLEAN : setSocketTrafficLogEnabled(on))
            => /\ ~aborted'
               /\ d' = [d EXCEPT !.logSocketTraffic = d'.logSocketTraffic]
        /\ (\E type \in ConnectionTypes : setConnectionType(type))
            => (d' = d /\ aborted')
      ]_vars

\* a setter returned on a Connected client
C3_Witness == d.status = "ST_Connected" /\ op = "set" /\ ~aborted

\* connectToServer returned false after its early returns
C4_StepFailed ==
    /\ op = "connectToServer"
    /\ pc = 0
    /\ ~ret
    /\ warnings # << >>
    /\ warnings[1][1] \notin
        {"connection not allowed, client is already connected",
         "unable to connect, call setConnectionType first",
         "unable to connect, missing server host / port",
         "unable to connect, missing client host",
         "unable to connect, missing account credentials"}

\* C4 as stated: after a failure at any step S0..S4 the socket has been
\* closed and the status is Disconnected.
C4_AnyFailureCloses ==
    C4_StepFailed => (~sock.open /\ d.status = "ST_Disconnected")

\* C4, amended: after a failure at any step that follows the transport
\* connect (greeting, EHLO, STARTTLS, handshake, second EHLO, authentication)
\* the socket has been closed and the status is Disconnected; after a failed
\* or timed out transport connect the status is Disconnected and the socket
\* is unconnected, but the driver has not closed it.
C4_FailureAfterConnectCloses ==
    C4_StepFailed =>
        /\ d.status = "ST_Disconnected"
        /\ sock.state = "UnconnectedState"
        /\ sock.open
            <=> (warnings[1][1] =
                    "unable to connect, connection timeout with error: %1")

\* connectToServer failed after the transport had connected
C4_Witness ==
    /\ C4_StepFailed
    /\ trace # << >>
    /\ trace[1] = <<"connected">>
    /\ ~sock.open

\* what an event of the trace is, as a string: the code of a reply, the
\* first piece of a write, "connected", "encrypted"
EventToken(e) ==
    IF e[1] = "reply" THEN Join(e[2])
    ELSE IF e[1] = "write" THEN e[2][1]
    ELSE e[1]

Tokens(t) == [i \in 1 .. Len(t) |-> EventToken(t[i])]

\* the events of a connectToServer call that succeeds, by configuration
C5_Order(dd) ==
    <<"connected", "220", "EHLO ", "250">>
    \o (IF dd.connectionType = "TlsConnection"
        THEN <<"STARTTLS", "220", "encrypted", "EHLO ", "250">> ELSE << >>)
    \o (CASE dd.authMethod = "AuthNone" -> << >>
          [] dd.authMethod = "AuthPlain" -> <<"AUTH PLAIN ", "235">>
          [] dd.authMethod = "AuthLogin" ->
                <<"AUTH LOGIN", "334", toBase64(dd.accountUsername), "334",
                  toBase64(dd.accountPassword), "235">>
          [] dd.authMethod = "AuthCramMd5" ->
                <<"AUTH CRAM-MD5", "334",
                  toBase64(dd.accountUsername \o " "
                    \o hmacMd5Hex(dd.accountPassword, fromBase64("PDE="))),
                  "235">>)

\* C5: the status becomes Connected only in the step that ends a
\* connectToServer call whose events were, in this order, transport
\* connected, greeting 220, EHLO answered 250, the STARTTLS upgrade if
\* configured, the authentication of the configured method; during the call
\* the status is Disconnected.
C5_ConnectedOnlyAfterFullConnect ==
    [][ /\ (d'.status = "ST_Connected" /\ d.status # "ST_Connected")
            => /\ op = "connectToServer"
               /\ pc > 0
               /\ pc' = 0
               /\ ret' = TRUE
               /\ Tokens(trace') = C5_Order(d)
        /\ (op' = "connectToServer" /\ pc' > 0)
            => d'.status = "ST_Disconnected"
      ]_vars

\* Connected through STARTTLS and CRAM-MD5
C5_Witness ==
    /\ d.status = "ST_Connected"
    /\ op = "connectToServer"
    /\ ret
    /\ d.connectionType = "TlsConnection"
    /\ d.authMethod = "AuthCramMd5"

\* writes of connectToServer that are neither EHLO nor STARTTLS: the AUTH
\* commands and the credentials
IsAuthToken(tk) == tk \notin {"connected", "encrypted", "EHLO ", "STARTTLS",
                             "220", "235", "250", "334", "354"}

Count(t, x) == Cardinality({i \in 1 .. Len(t) : t[i] = x})

\* C6: with a TlsConnection nothing of the authentication is written before
\* STARTTLS was answered 220, the handshake completed and a second EHLO was
\* answered 250; with another connection type STARTTLS is never written and
\* EHLO is written at most once, exactly once in a call that succeeds.
C6_StartTlsBeforeAuth ==
    op = "connectToServer" =>
        LET tk == Tokens(trace) IN
        IF d.connectionType = "TlsConnection"
        THEN \A i \in 1 .. Len(tk) : IsAuthToken(tk[i]) =>
                \E j \in 1 .. (i - 5) :
                    /\ tk[j] = "STARTTLS"
                    /\ tk[j + 1] = "220"
                    /\ tk[j + 2] = "encrypted"
                    /\ tk[j + 3] = "EHLO "
                    /\ tk[j + 4] = "250"
        ELSE /\ Count(tk, "STARTTLS") = 0
             /\ Count(tk, "EHLO ") <= 1
             /\ (pc = 0 /\ ret) => Count(tk, "EHLO ") = 1

\* Connected through STARTTLS and AUTH LOGIN
C6_Witness ==
    /\ d.status = "ST_Connected"
    /\ op = "connectToServer"
    /\ ret
    /\ d.connectionType = "TlsConnection"
    /\ d.authMethod = "AuthLogin"

\* the commands of sendMessage for message m and the codes of their replies
C7_Commands(m) ==
    <<(<<"MAIL FROM:<", m.d_senderAddress.d_email, ">", "\r\n">>)>>
    \o [i \in 1 .. Len(m.d_toAddresses) |->
            <<"RCPT TO:<", m.d_toAddresses[i].d_email, ">", "\r\n">>]
    \o [i \in 1 .. Len(m.d_ccAddresses) |->
            <<"RCPT TO:<", m.d_ccAddresses[i].d_email, ">", "\r\n">>]
    \o <<(<<"DATA", "\r\n">>), MimeMessage_bytes(m)>>

C7_Codes(m) ==
    [i \in 1 .. (Len(m.d_toAddresses) + Len(m.d_ccAddresses) + 1) |-> C250]
    \o <<C354, C250>>

\* every command followed by its reply
C7_Exchange(m) ==
    [i \in 1 .. (2 * Len(C7_Commands(m))) |->
        IF i % 2 = 1 THEN <<"write", C7_Commands(m)[(i + 1) \div 2]>>
        ELSE <<"reply", C7_Codes(m)[i \div 2]>>]

\* C7: the events of a sendMessage call are always a prefix of: MAIL FROM,
\* 250, RCPT TO per To recipient in order each with its 250, RCPT TO per Cc
\* recipient in order each with its 250, DATA, 354, the message, 250; so a
\* write follows the reply to the write before it; a call that succeeds has
\* all of them, with |To| + |Cc| RCPT TO.
C7_SendSequence ==
    op = "sendMessage" =>
        /\ Len(trace) <= Len(C7_Exchange(msg))
        /\ trace = SubSeq(C7_Exchange(msg), 1, Len(trace))
        /\ (pc = 0 /\ ret) =>
            /\ trace = C7_Exchange(msg)
            /\ Cardinality({i \in 1 .. Len(trace) :
                    trace[i][1] = "write" /\ trace[i][2][1] = "RCPT TO:<"})
                = Len(msg.d_toAddresses) + Len(msg.d_ccAddresses)

\* a message with two To and one Cc recipient was sent
C7_Witness ==
    /\ op = "sendMessage"
    /\ pc = 0
    /\ ret
    /\ msg = MsgTwoToOneCc

\* sendMessage returned false after its early returns
C8_StepFailed ==
    /\ op = "sendMessage"
    /\ pc = 0
    /\ ~ret
    /\ warnings # << >>
    /\ warnings[1][1] \notin {"unable to send, message is not valid",
                             "unable to send, client is not connected"}

\* C8: after sendMessage failed in one of its steps the status is
\* Disconnected and the socket closed; a sendMessage call on a Disconnected
\* client returns false and writes nothing; the status becomes Connected
\* again only by a connectToServer call that returns true.
C8_FailedSendDisconnects ==
    [][ /\ C8_StepFailed' => (d'.status = "ST_Disconnected" /\ ~sock'.open)
        /\ ((\E m \in Messages : sendMessage(m))
                /\ d.status = "ST_Disconnected")
            => /\ pc' = 0
               /\ ret' = FALSE
               /\ trace' = << >>
               /\ sock' = sock
               /\ net' = net
        /\ (Wrote /\ op = "sendMessage") => d.status = "ST_Connected"
        /\ (d.status = "ST_Disconnected" /\ d'.status = "ST_Connected")
            => (op = "connectToServer" /\ op' = op /\ ret' = TRUE)
      ]_vars

\* sendMessage failed because the message could not be serialised
C8_Witness ==
    /\ C8_StepFailed
    /\ warnings = <<(<<"unexpected error, unable to write msg to socket">>)>>
    /\ msg = MsgUnwritable

\* C9: a sendMessage call with an invalid message, or on a client that is
\* not Connected, returns false, writes nothing and changes neither the
\* status, nor any other field, nor the socket.
C9_RejectedSendChangesNothing ==
    [][(\E m \in Messages :
            /\ sendMessage(m)
            /\ ~MimeMessage_isValid(m) \/ d.status # "ST_Connected")
        => /\ pc' = 0
           /\ ret' = FALSE
           /\ trace' = << >>
           /\ d' = d
           /\ sock' = sock
           /\ net' = net
      ]_vars

\* an invalid message was rejected by a Connected client
C9_Witness ==
    /\ op = "sendMessage"
    /\ pc = 0
    /\ ~ret
    /\ warnings = <<(<<"unable to send, message is not valid">>)>>
    /\ d.status = "ST_Connected"
    /\ sock.state = "ConnectedState"

\* the configurations C10 is about
C10_Incomplete(dd) ==
    \/ dd.socket = "nullptr"
    \/ dd.serverHost = ""
    \/ dd.serverPort = 0
    \/ dd.clientHost = ""
    \/ /\ dd.authMethod # "AuthNone"
       /\ dd.accountUsername = "" \/ dd.accountPassword = ""

\* C10: connectToServer with an incomplete configuration returns false
\* without touching the socket, without writing, with status Disconnected.
C10_IncompleteConfigRejected ==
    [][(connectToServer /\ C10_Incomplete(d))
        => /\ pc' = 0
           /\ ret' = FALSE
           /\ trace' = << >>
           /\ sock' = sock
           /\ net' = net
           /\ d' = d
           /\ d'.status = "ST_Disconnected"
      ]_vars

\* connectToServer was rejected for missing credentials
C10_Witness ==
    /\ op = "connectToServer"
    /\ pc = 0
    /\ ~ret
    /\ warnings = <<(<<"unable to connect, missing account credentials">>)>>
    /\ d.accountUsername # ""
    /\ d.accountPassword = ""

\* C11: the step in which sendMessage returns true leaves the status
\* Connected and the transport open and connected, after the full exchange
\* of C7; a sendMessage call with a valid message made after messages were
\* sent over the connection passes its checks on the same transport.
C11_SuccessfulSendStaysConnected ==
    [][ /\ (op = "sendMessage" /\ pc > 0 /\ pc' = 0 /\ ret' = TRUE)
            => /\ d' = d
               /\ d'.status = "ST_Connected"
               /\ sock'.open
               /\ sock'.state = "ConnectedState"
               /\ trace' = C7_Exchange(msg)
        /\ ((\E m \in Messages : sendMessage(m) /\ MimeMessage_isValid(m))
                /\ nsent > 0)
            => /\ pc' = 1
               /\ d' = d
               /\ d.status = "ST_Connected"
               /\ sock' = sock
               /\ sock.state = "ConnectedState"
      ]_vars

\* a second message was sent over the same connection
C11_Witness ==
    /\ nsent = 2
    /\ op = "sendMessage"
    /\ pc = 0
    /\ ret
    /\ d.status = "ST_Connected"
    /\ trace = C7_Exchange(msg)

\* C12: closeConnection on a Connected client sets the status Disconnected
\* and closes the socket and writes nothing; on a Disconnected client it
\* changes neither a field nor the socket; a closeConnection call right
\* after a closeConnection call changes nothing at all.
C12_CloseIdempotent ==
    [][closeConnection
        => /\ trace' = << >>
           /\ d'.status = "ST_Disconnected"
           /\ d' = [d EXCEPT !.status = "ST_Disconnected"]
           /\ d.status = "ST_Connected"
                => (sock' = SocketClosed /\ net' = << >>)
           /\ d.status = "ST_Disconnected"
                => (d' = d /\ sock' = sock /\ net' = net)
           /\ op = "closeConnection" => UNCHANGED vars
      ]_vars

\* closeConnection has just closed the connection of a configured client
C12_Witness ==
    /\ op = "closeConnection"
    /\ d.status = "ST_Disconnected"
    /\ d.socket # "nullptr"
    /\ sock = SocketClosed
    /\ d.serverHost # ""

\* a line as received, without its CR LF
Payload(l) ==
    IF Len(l) >= 2 /\ l[Len(l) - 1] = "\r" /\ l[Len(l)] = "\n"
    THEN SubSeq(l, 1, Len(l) - 2) ELSE l

StartsWithCode(p) == Len(p) >= 4 /\ \A i \in 1 .. 3 : p[i] \in Digit

\* 'DDD text'
IsTerminalLine(l) == StartsWithCode(Payload(l)) /\ Payload(l)[4] = " "

\* 'DDD-text'
IsContinuationLine(l) == StartsWithCode(Payload(l)) /\ Payload(l)[4] = "-"

\* the terminal lines of buf, by position
TerminalAt(buf) == {i \in 1 .. Len(buf) : IsTerminalLine(buf[i])}

\* C13: on a buffer of reply lines that holds a terminal line, the reader
\* decides on the first terminal line: it succeeds iff the code of that line
\* is the expected code, then returning the text behind the space as body and
\* leaving the lines behind it in the buffer; it fails on any other code.
C13_ReaderDecidesOnFirstTerminal ==
    (res.done /\ arg.f = "pn_waitForResponse"
        /\ (\A i \in 1 .. Len(arg.buf) :
                IsTerminalLine(arg.buf[i]) \/ IsContinuationLine(arg.buf[i]))
        /\ TerminalAt(arg.buf) # {})
    => LET k == CHOOSE i \in TerminalAt(arg.buf) :
                    \A j \in TerminalAt(arg.buf) : i <= j
           p == Payload(arg.buf[k])
       IN  /\ res.val.rest = SubSeq(arg.buf, k + 1, Len(arg.buf))
           /\ IF SubSeq(p, 1, 3) = arg.expectedCode
              THEN res.val.res = "ok"
                    /\ res.val.body = SubSeq(p, 5, Len(p))
              ELSE res.val.res = "bad"

\* a line that is neither 'DDD text' nor 'DDD-text'
IsMalformedLine(l) == ~IsTerminalLine(l) /\ ~IsContinuationLine(l)

\* C14: when the first line the waiting driver reads is malformed, the call
\* in progress returns false with the record of an invalid response, the
\* status is Disconnected and the socket closed.
C14_MalformedLineFails ==
    [][(\E n \in 1 .. MaxPending :
            /\ pn_waitForResponse_read(n)
            /\ IsMalformedLine(Head(sock.rbuf \o net)))
        => /\ pc' = 0
           /\ ret' = FALSE
           /\ d'.status = "ST_Disconnected"
           /\ sock' = SocketClosed
           /\ warnings' # << >>
           /\ warnings'[Len(warnings')][1]
                = "invalid response, expected %1, received: %2"
      ]_vars

\* C15: every call in progress eventually returns.
C15_EveryCallReturns == (pc > 0) ~> (pc = 0)

\* the last n bytes of a byte string
right(s, n) == IF Len(s) <= n THEN s ELSE SubSeq(s, Len(s) - n + 1, Len(s))

\* C16: whenever writeToDev was called on a message for which isValid()
\* holds, the call returned true and the bytes written end with
\* CR LF '.' CR LF.
C16_ValidMessageIsWritten ==
    (arg.f = "MimeMessage::writeToDev" /\ res.done
        /\ MimeMessage_isValid(msg))
    => /\ res.val.ok
       /\ right(res.val.out, 5) = "\r\n.\r\n"

\* C17: the children of the multipart are the primary body, if there is
\* one, followed by the parts handed to addMimePart, in the order of the
\* calls; a body setter leaves the added parts as they are.
C17_BodyFirstThenAddedParts ==
    LET off == IF msg.d_messageBody # 0 THEN 1 ELSE 0
    IN  /\ Len(msg.d_multiPart) = Len(trace) + off
        /\ msg.d_messageBody # 0
            => /\ msg.d_multiPart[1].id = msg.d_messageBody
               /\ msg.d_multiPart[1].class \in {"MimeText", "MimeHtml"}
        /\ \A i \in 1 .. Len(trace) :
                /\ trace[i][1] = "addMimePart"
                /\ msg.d_multiPart[i + off] = trace[i][2]
                /\ msg.d_multiPart[i + off].id # msg.d_messageBody

\* a body was replaced by one of the other kind while two added parts were
\* there, a field of one of them set anew after it was added
C17_Witness ==
    /\ arg.f = "setMessageBodyHtml"
    /\ arg.had
    /\ arg.text # ""
    /\ msg.d_messageBody # 0
    /\ Len(trace) = 2
    /\ trace[1][2].data # trace[2][2].data
    /\ EditedFields(HeldParts) # {}

\* C18: after setMessageBodyText(s) the text body is s and the html body is
\* empty; after setMessageBodyHtml(s) the html body is s and the text body
\* is empty.
C18_BodySettersExcludeEachOther ==
    [][/\ \A s \in BodyTexts :
            setMessageBodyText(s)
                => messageBodyText(msg') = s /\ messageBodyHtml(msg') = ""
       /\ \A s \in BodyTexts :
            setMessageBodyHtml(s)
                => messageBodyHtml(msg') = s /\ messageBodyText(msg') = ""
      ]_vars

\* a text body took the place of a body, next to an added part
C18_Witness ==
    /\ arg.f = "setMessageBodyText"
    /\ arg.had
    /\ arg.text # ""
    /\ messageBodyText(msg) = arg.text
    /\ trace # << >>

\* an address is valid: not empty, and its address field matches the
\* pattern
C19_AddressValid(a) ==
    /\ ~(a.d_email = << >> /\ a.d_name = "")
    /\ EmailPatternHasMatch(a.d_email)

\* the addresses of the message that have to be valid
C19_CheckedAddresses(m) ==
    {m.d_senderAddress}
        \cup (IF m.d_replyToAddress = EmptyAddress
              THEN {} ELSE {m.d_replyToAddress})
        \cup {m.d_toAddresses[i] : i \in 1 .. Len(m.d_toAddresses)}
        \cup {m.d_ccAddresses[i] : i \in 1 .. Len(m.d_ccAddresses)}

\* C19: isValid() returns true exactly when the sender is valid, the
\* reply-to address is empty or valid, there is a To recipient, every To
\* and Cc recipient is valid, the subject is not empty and there is a
\* primary body; an address with a name and no address field is not empty
\* and not valid.
C19_IsValidExactly ==
    /\ (arg.f = "MimeMessage::isValid" /\ res.done)
        => res.val = (/\ \A a \in C19_CheckedAddresses(msg) :
                                C19_AddressValid(a)
                      /\ msg.d_toAddresses # << >>
                      /\ msg.d_messageSubject # ""
                      /\ msg.d_messageBody # 0)
    /\ \A a \in C19_CheckedAddresses(msg) :
            /\ EmailAddress_isValid(a) = C19_AddressValid(a)
            /\ (a.d_email = << >> /\ a.d_name # "")
                => ~EmailAddress_isEmpty(a) /\ ~EmailAddress_isValid(a)

\* isValid() returned false for a message that lacks nothing but the
\* address field of its Cc recipient
C19_Witness ==
    /\ arg.f = "MimeMessage::isValid"
    /\ res.done
    /\ ~res.val
    /\ msg.d_senderAddress = AddrA
    /\ msg.d_replyToAddress = AddrE
    /\ msg.d_toAddresses = <<AddrC>>
    /\ msg.d_ccAddresses = <<AddrNameOnly>>
    /\ msg.d_messageSubject # ""
    /\ msg.d_messageBody # 0

\* C20: encodeEmailAddress returns no byte for an invalid address,
\* encodeEmailAddresses none for a list with an invalid element, and
\* writeToDev fails without writing a byte when the sender, a non-empty
\* reply-to address or a To or Cc recipient is invalid.
C20_InvalidAddressNeverWritten ==
    /\ (arg.f = "encodeEmailAddress" /\ res.done
            /\ ~C19_AddressValid(arg.email))
        => res.val = ""
    /\ (arg.f = "encodeEmailAddresses" /\ res.done
            /\ \E i \in 1 .. Len(arg.emails) :
                    ~C19_AddressValid(arg.emails[i]))
        => res.val = ""
    /\ (arg.f = "MimeMessage::writeToDev" /\ res.done
            /\ \E a \in C19_CheckedAddresses(msg) : ~C19_AddressValid(a))
        => ~res.val.ok /\ res.val.out = ""

\* writeToDev was called on a message whose second To recipient has no
\* address field, and wrote nothing
C20_Witness ==
    /\ arg.f = "MimeMessage::writeToDev"
    /\ res.done
    /\ res.val.out = ""
    /\ msg.d_senderAddress = AddrA
    /\ msg.d_toAddresses = <<AddrC, AddrNameOnly>>
    /\ msg.d_ccAddresses = <<AddrG>>
    /\ msg.d_messageSubject # ""
    /\ msg.d_messageBody # 0

\* C21: no part occurs twice among the children of the multipart, and the
\* destruction of the message deletes no part twice.
C21_PartHasOneParent ==
    /\ \A i, j \in 1 .. Len(msg.d_multiPart) :
            msg.d_multiPart[i].id = msg.d_multiPart[j].id => i = j
    /\ (arg.f = "MimeMessage::~MimeMessage" /\ res.done)
        => ~DeletedTwice(res.val.deleted)

\* the byte string t occurs in the byte string s
Contains(s, t) ==
    \E i \in 1 .. (Len(s) - Len(t) + 1) : SubSeq(s, i, i + Len(t) - 1) = t

\* C22: writeToDev of a multipart with one child returns what writeToDev of
\* the child returns and writes the same bytes, with no multipart/mixed
\* header and no boundary line; on an empty multipart it returns false and
\* writes nothing.
C22_SingleChildWrittenAlone ==
    (arg.f = "MimeMultiPartMixed::writeToDev" /\ res.done)
    => /\ Len(msg.d_multiPart) = 1
            => /\ res.val = MimePart_writeToDev(msg.d_multiPart[1])
               /\ ~Contains(res.val.out, "multipart/mixed")
               /\ ~Contains(res.val.out, "--" \o CreatedUuid)
       /\ msg.d_multiPart = << >>
            => ~res.val.ok /\ res.val.out = ""

\* a multipart whose one child is a file part was written, the content
\* type of the part set after it was added and its content folded into two
\* lines of base64
C22_Witness ==
    /\ arg.f = "MimeMultiPartMixed::writeToDev"
    /\ res.done
    /\ res.val.ok
    /\ Len(msg.d_multiPart) = 1
    /\ msg.d_multiPart[1].class = "MimeFile"
    /\ Contains(res.val.out, "Content-Type: text/x;")
    /\ Contains(res.val.out, "Content-Disposition: attachment")
    /\ Contains(res.val.out, "YWFh\r\nYWFh\r\n")

\* the lines of a byte string: what stands between its CR LF pairs
RECURSIVE LinesOf(_)
LinesOf(s) ==
    IF ~Contains(s, "\r\n") THEN <<s>>
    ELSE LET i == CHOOSE k \in 1 .. (Len(s) - 1) :
                    /\ SubSeq(s, k, k + 1) = "\r\n"
                    /\ \A j \in 1 .. (k - 1) : SubSeq(s, j, j + 1) # "\r\n"
         IN  <<SubSeq(s, 1, i - 1)>> \o LinesOf(SubSeq(s, i + 2, Len(s)))

\* C23: every line of what formatQuotedPrintableIntoLines returns for a
\* line size above 0, the '=' of a soft break included, has at most that
\* many bytes.
C23_FoldedLineWithinMax ==
    (arg.f = "formatQuotedPrintableIntoLines" /\ res.done
        /\ arg.maxLineSize > 0)
    => \A i \in 1 .. Len(LinesOf(res.val)) :
            Len(LinesOf(res.val)[i]) <= arg.maxLineSize

\* the same for line sizes of 4 and more and quoted-printable input
C23_FoldedLineWithinMaxFrom4 ==
    (arg.f = "formatQuotedPrintableIntoLines" /\ res.done
        /\ arg.maxLineSize >= 4
        /\ arg.encoded \in {encodeQuotedPrintable(QString(t)) : t \in Texts})
    => \A i \in 1 .. Len(LinesOf(res.val)) :
            Len(LinesOf(res.val)[i]) <= arg.maxLineSize

HexDigitsUpper == {"0", "1", "2", "3", "4", "5", "6", "7", "8", "9",
                   "A", "B", "C", "D", "E", "F"}

\* a byte string made of bytes of [0-9A-Za-z] and of whole '=HH' triplets
RECURSIVE IsQuotedPrintable(_)
IsQuotedPrintable(s) ==
    \/ s = ""
    \/ /\ Head(s) \in (Alpha \cup Digit)
       /\ IsQuotedPrintable(Tail(s))
    \/ /\ Len(s) >= 3
       /\ Head(s) = "="
       /\ CharAt(s, 2) \in HexDigitsUpper
       /\ CharAt(s, 3) \in HexDigitsUpper
       /\ IsQuotedPrintable(SubSeq(s, 4, Len(s)))

\* a line of folded output without the '=' of its soft break; the last
\* line has none
Unbroken(lines, i) ==
    IF i < Len(lines)
    THEN SubSeq(lines[i], 1, Len(lines[i]) - 1)
    ELSE lines[i]

\* C24: folding what encodeQuotedPrintable returned, at any line size above
\* 0, puts every '=HH' triplet whole on one line: each line ends with the
\* '=' of its soft break, except the last, and is made, that '=' apart, of
\* bytes of [0-9A-Za-z] and whole triplets; the lines put together are the
\* input.
C24_TripletNeverSplit ==
    (arg.f = "formatQuotedPrintableIntoLines" /\ res.done
        /\ arg.maxLineSize > 0
        /\ arg.encoded \in {encodeQuotedPrintable(QString(t)) : t \in Texts})
    => LET lines == LinesOf(res.val)
       IN  /\ \A i \in 1 .. (Len(lines) - 1) :
                    /\ lines[i] # ""
                    /\ CharAt(lines[i], Len(lines[i])) = "="
           /\ \A i \in 1 .. Len(lines) :
                    IsQuotedPrintable(Unbroken(lines, i))
           /\ StringOf([i \in 1 .. Len(lines) |-> Unbroken(lines, i)])
                = arg.encoded

\* two triplets and a plain byte were folded at line size 4, with a soft
\* break between them
C24_Witness ==
    /\ arg.f = "formatQuotedPrintableIntoLines"
    /\ res.done
    /\ arg.maxLineSize = 4
    /\ arg.encoded = encodeQuotedPrintable(" a=")
    /\ arg.encoded \in ByteStrings
    /\ res.val = "=20=\r\na=\r\n=3D"

\* the values of the bytes of the UTF-8 encoding of a text given by its
\* code points, all below U+0800
RECURSIVE Utf8Values(_)
Utf8Values(text) ==
    IF text = << >> THEN << >>
    ELSE LET cp == Head(text)
         IN  (IF cp < 128 THEN <<cp>>
              ELSE <<192 + (cp \div 64), 128 + (cp % 64)>>)
             \o Utf8Values(Tail(text))

HexCharsUpper == <<"0", "1", "2", "3", "4", "5", "6", "7", "8", "9",
                   "A", "B", "C", "D", "E", "F">>

\* what a byte of value v is to become: itself in [0-9A-Za-z] (only 'a' and
\* '7' occur), '=' and two uppercase hex digits otherwise
C25_Unit(v) ==
    IF (v >= 48 /\ v <= 57) \/ (v >= 65 /\ v <= 90) \/ (v >= 97 /\ v <= 122)
    THEN (IF v = 97 THEN "a" ELSE "7")
    ELSE "=" \o HexCharsUpper[(v \div 16) + 1] \o HexCharsUpper[(v % 16) + 1]

\* C25: encodeQuotedPrintable returns, for the bytes of the UTF-8 encoding
\* of the text in their order, each byte of [0-9A-Za-z] as it is and each
\* other byte as one '=HH' triplet with uppercase hex digits, and nothing
\* else.
C25_OnlyAlnumAndTriplets ==
    (arg.f = "encodeQuotedPrintable" /\ res.done)
    => /\ res.val = StringOf([i \in 1 .. Len(Utf8Values(arg.text)) |->
                                C25_Unit(Utf8Values(arg.text)[i])])
       /\ IsQuotedPrintable(res.val)

\* a text with a plain byte, '=', and a character of two bytes was encoded
C25_Witness ==
    /\ arg.f = "encodeQuotedPrintable"
    /\ res.done
    /\ arg.text = <<97, 61, 233>>
    /\ res.val = "a=3D=C3=A9"

\* the k-th piece of n bytes of a byte string
Piece(data, n, k) == SubSeq(data, (k - 1) * n + 1, Min(k * n, Len(data)))

\* space that follows CR LF
WordsOf(encoded) ==
    [i \in 1 .. Len(LinesOf(encoded)) |->
        IF i = 1 THEN LinesOf(encoded)[i] ELSE Tail(LinesOf(encoded)[i])]

\* C27: what encodeMimeWordQ and encodeMimeWordB return for a non-empty
\* text is made of encoded words joined by CR LF SPACE, and either every
\* word has at most max_word_size bytes or every word encodes one
\* character of the text.
C27_WordWithinMaxOrOneChar ==
    (arg.f \in {"encodeMimeWordQ", "encodeMimeWordB"} /\ res.done
        /\ arg.text # << >>)
    => LET lines == LinesOf(res.val)
           words == WordsOf(res.val)
           prefix == IF arg.f = "encodeMimeWordQ"
                     THEN "=?utf-8?Q?" ELSE "=?utf-8?B?"
       IN  /\ \A i \in 2 .. Len(lines) : lines[i] # "" /\ Head(lines[i]) = " "
           /\ \A i \in 1 .. Len(words) :
                /\ Len(words[i]) > Len(prefix) + 2
                /\ SubSeq(words[i], 1, Len(prefix)) = prefix
                /\ right(words[i], 2) = "?="
                /\ ~Contains(words[i], " ")
           /\ \/ \A i \in 1 .. Len(words) : Len(words[i]) <= arg.maxWordSize
              \/ Len(words) = Len(arg.text)

\* a text of three characters was encoded as two words that fit, the first
\* of two characters
C27_Witness ==
    /\ arg.f = "encodeMimeWordB"
    /\ res.done
    /\ arg.text = <<97, 97, 233>>
    /\ arg.maxWordSize = 16
    /\ res.val = "=?utf-8?B?YWE=?=\r\n =?utf-8?B?w6k=?="

\* a word longer than the size was returned, of one character
C27_WitnessOneChar ==
    /\ arg.f = "encodeMimeWordQ"
    /\ res.done
    /\ arg.text = <<97, 233>>
    /\ arg.maxWordSize = 13
    /\ res.val = "=?utf-8?Q?a?=\r\n =?utf-8?Q?=C3=A9?="

\* the digits a byte string starts with
RECURSIVE LeadingDigits(_)
LeadingDigits(s) ==
    IF s = "" \/ Head(s) \notin Digit THEN ""
    ELSE Head(s) \o LeadingDigits(Tail(s))

\* the message with each placeholder '%k', k the whole number that follows
\* '%', replaced by the k-th argument if there is one, in one pass
RECURSIVE C29_SlotExact(_, _)
C29_SlotExact(s, args) ==
    IF s = "" THEN ""
    ELSE IF Head(s) # "%" THEN Head(s) \o C29_SlotExact(Tail(s), args)
    ELSE LET digits == LeadingDigits(Tail(s))
             rest == SubSeq(s, Len(digits) + 2, Len(s))
         IN  IF \E k \in 1 .. Len(args) : ToString(k) = digits
             THEN args[CHOOSE k \in 1 .. Len(args) : ToString(k) = digits]
                    \o C29_SlotExact(rest, args)
             ELSE "%" \o digits \o C29_SlotExact(rest, args)

\* the digits a sequence of code points starts with
RECURSIVE C29_LeadingDigitCodes(_)
C29_LeadingDigitCodes(s) ==
    IF s = << >> \/ Head(s) \notin 48 .. 57 THEN << >>
    ELSE <<Head(s)>> \o C29_LeadingDigitCodes(Tail(s))

\* C29_SlotExact on code points: 37 is '%'
RECURSIVE C29_SlotExactCodes(_, _)
C29_SlotExactCodes(s, texts) ==
    IF s = << >> THEN << >>
    ELSE IF Head(s) # 37
    THEN <<Head(s)>> \o C29_SlotExactCodes(Tail(s), texts)
    ELSE LET digits == C29_LeadingDigitCodes(Tail(s))
             rest == SubSeq(s, Len(digits) + 2, Len(s))
         IN  IF \E k \in 1 .. Len(texts) : Codes(ToString(k)) = digits
             THEN texts[CHOOSE k \in 1 .. Len(texts) :
                            Codes(ToString(k)) = digits]
                    \o C29_SlotExactCodes(rest, texts)
             ELSE <<37>> \o digits \o C29_SlotExactCodes(rest, texts)

\* the texts the QVariant arguments of the call are put in as
C29_VariantTexts == [i \in 1 .. Len(arg.args) |-> QVariant_log(arg.args[i])]

\* C29: the message a handler holds after its arguments is the message it
\* was built with, each placeholder numbered k replaced by the k-th
\* argument, a QVariant argument by the text that describes it: text an
\* argument put in is not looked at again, and '%10' is not a placeholder
\* of the first argument.
C29_SubstitutionSlotExact ==
    /\ (arg.f = "RTLogHandler::operator%" /\ res.done)
        => res.val = C29_SlotExact(arg.msg, arg.args)
    /\ (arg.f = "RTLogHandler::operator%(QVariant)" /\ res.done)
        => res.val = C29_SlotExactCodes(Codes(arg.msg), C29_VariantTexts)

\* the same for messages whose placeholders have one digit and arguments
\* without '%'
C29_SubstitutionPlainArgs ==
    /\ (arg.f = "RTLogHandler::operator%" /\ res.done
            /\ arg.msg # "%10"
            /\ \A i \in 1 .. Len(arg.args) : ~Contains(arg.args[i], "%"))
        => res.val = C29_SlotExact(arg.msg, arg.args)
    /\ (arg.f = "RTLogHandler::operator%(QVariant)" /\ res.done
            /\ arg.msg # "%10"
            /\ \A i \in 1 .. Len(arg.args) :
                    ~Contains(arg.args[i].toString, "%"))
        => res.val = C29_SlotExactCodes(Codes(arg.msg), C29_VariantTexts)

\* thread p is between the formatting of its record and the end of the
\* destructor
InSection(p) ==
    log.h[p].pc \in {"format", "fprintf", "fflush", "rotate", "append",
                     "leave"}

\* C28: at most one thread at a time is between formatting its record and
\* the end of the append to the log file; on stderr the two writes of a
\* record follow each other with nothing in between, each finished record
\* is there once, and the log file holds whole records, each at most once.
C28_WholeRecords ==
    /\ \A p, q \in Producers : (InSection(p) /\ InSection(q)) => p = q
    /\ \A p \in Producers : InSection(p) => log.mutex = p
    /\ \A i \in 1 .. Len(log.stderr) :
            LET c == log.stderr[i]
            IN  /\ c.part = 1 /\ i < Len(log.stderr)
                    => /\ log.stderr[i + 1].part = 2
                       /\ log.stderr[i + 1].p = c.p
                       /\ log.stderr[i + 1].k = c.k
                /\ c.part = 1 /\ i = Len(log.stderr)
                    => log.h[c.p].pc = "fflush"
                /\ c.part = 2
                    => /\ i > 1
                       /\ log.stderr[i - 1].part = 1
                       /\ log.stderr[i - 1].p = c.p
                       /\ log.stderr[i - 1].k = c.k
                       /\ Head(log.stderr[i - 1].text) = "["
                       /\ right(c.text, 1) = "\n"
    /\ \A p \in Producers : \A k \in 1 .. log.h[p].done :
            Cardinality({i \in 1 .. Len(log.stderr) :
                            /\ log.stderr[i].p = p
                            /\ log.stderr[i].k = k
                            /\ log.stderr[i].part = 1}) = 1
    /\ \A i, j \in 1 .. Len(log.file.records) :
            /\ Head(log.file.records[i].text) = "["
            /\ right(log.file.records[i].text, 1) = "\n"
            /\ (log.file.records[i].p = log.file.records[j].p
                    /\ log.file.records[i].k = log.file.records[j].k)
                => i = j

\* a thread waits for the mutex while another has written the first half
\* of its record to stderr, after a record of the first thread
C28_Witness ==
    /\ log.h[1].pc = "lock"
    /\ log.h[1].done = 1
    /\ log.h[2].pc = "fflush"
    /\ log.mutex = 2
    /\ Len(log.stderr) = 3
    /\ Len(log.file.records) = 1

\* the record logged by connectToServer when it misses a credential
C30_MissingCredentials == "unable to connect, missing account credentials"

\* a call of one of the two setters of the credentials
C30_SetCredential ==
    \/ \E user \in Users : setAccountUser(user)
    \/ \E password \in Passwords : setAccountPassword(password)

\* exactly one of username and password is set
C30_OneCredential(dd) == (dd.accountUsername = "") # (dd.accountPassword = "")

\* C30: on a Disconnected client setAccountUser and setAccountPassword turn
\* the auth method AuthNone into AuthPlain and leave any other method as it
\* is; after setting one of username and password from the defaults,
\* connectToServer is rejected, for missing credentials once the checks
\* before that one pass.
C30_CredentialSetsAuthPlain ==
    [][/\ (C30_SetCredential /\ d.status = "ST_Disconnected")
            => /\ d'.authMethod = IF d.authMethod = "AuthNone"
                                  THEN "AuthPlain"
                                  ELSE d.authMethod
               /\ (d.authMethod = PrivateData0.authMethod
                        /\ d.accountUsername = PrivateData0.accountUsername
                        /\ d.accountPassword = PrivateData0.accountPassword
                        /\ C30_OneCredential(d'))
                    => connectToServer_check(d') # ""
       /\ (connectToServer /\ d.authMethod = "AuthPlain"
                /\ C30_OneCredential(d))
            => /\ ret' = FALSE
               /\ pc' = 0
               /\ sock' = sock
               /\ (d.status = "ST_Disconnected" /\ d.socket # "nullptr"
                        /\ d.serverHost # "" /\ d.serverPort # 0
                        /\ d.clientHost # "")
                    => warnings' = <<(<<C30_MissingCredentials>>)>>
      ]_vars

\* connectToServer was rejected for missing credentials on a client whose
\* password is set, whose username is not and whose auth method is AuthPlain
C30_Witness ==
    /\ op = "connectToServer"
    /\ pc = 0
    /\ ret = FALSE
    /\ warnings = <<(<<C30_MissingCredentials>>)>>
    /\ d.accountUsername = ""
    /\ d.accountPassword = "secret"
    /\ d.authMethod = "AuthPlain"

\* a line written to the socket and a reply accepted, as the trace holds them
C31_Write(data) == <<"write", Append(data, "\r\n")>>

C31_Reply(code) == <<"reply", code>>

\* the exchange up to the authentication
C31_Greeting(dd) ==
    <<(<<"connected">>), C31_Reply(C220),
      C31_Write(<<"EHLO ", dd.clientHost>>), C31_Reply(C250)>>
        \o IF dd.connectionType = "TlsConnection"
           THEN <<C31_Write(<<"STARTTLS">>), C31_Reply(C220),
                  (<<"encrypted">>),
                  C31_Write(<<"EHLO ", dd.clientHost>>), C31_Reply(C250)>>
           ELSE << >>

\* the exchange each method prescribes
C31_Prescribed(dd, challenge) ==
    CASE dd.authMethod = "AuthNone" -> << >>
      [] dd.authMethod = "AuthPlain" ->
            <<C31_Write(<<"AUTH PLAIN ",
                          toBase64("\\0" \o dd.accountUsername \o "\\0"
                                        \o dd.accountPassword)>>),
              C31_Reply(C235)>>
      [] dd.authMethod = "AuthLogin" ->
            <<C31_Write(<<"AUTH LOGIN">>), C31_Reply(C334),
              C31_Write(<<toBase64(dd.accountUsername)>>), C31_Reply(C334),
              C31_Write(<<toBase64(dd.accountPassword)>>), C31_Reply(C235)>>
      [] dd.authMethod = "AuthCramMd5" ->
            <<C31_Write(<<"AUTH CRAM-MD5">>), C31_Reply(C334),
              C31_Write(<<toBase64(dd.accountUsername \o " "
                            \o hmacMd5Hex(dd.accountPassword,
                                          fromBase64(Join(challenge))))>>),
              C31_Reply(C235)>>

C31_IsPrefix(s, t) == Len(s) <= Len(t) /\ s = SubSeq(t, 1, Len(s))

\* the call waits for a reply and the lines it reads now end in a terminal
\* line with another code
C31_OtherCodeRead ==
    /\ op = "connectToServer"
    /\ Running(WaitKinds)
    /\ \E n \in 1 .. Len(net) :
            /\ pn_waitForResponse_read(n)
            /\ pn_waitForResponse(sock.rbuf \o SubSeq(net, 1, n),
                                  Step.code).res = "bad"

\* C31: what connectToServer wrote and accepted is at every moment a prefix
\* of the greeting followed by the exchange of the configured method (no
\* AUTH for None; AUTH PLAIN then 235; AUTH LOGIN, 334, username, 334,
\* password, 235; AUTH CRAM-MD5, 334 with the challenge, the response
\* computed from it, 235); the call returns true exactly when that exchange
\* is complete, and a terminal reply with another code fails the call.
C31_AuthAsPrescribed ==
    [][/\ (op' = "connectToServer" /\ trace' # << >>)
            => LET all == C31_Greeting(d') \o C31_Prescribed(d', msgBody')
               IN  /\ C31_IsPrefix(trace', all)
                   /\ ret' <=> (pc' = 0 /\ trace' = all)
                   /\ ret' => d'.status = "ST_Connected"
       /\ C31_OtherCodeRead
            => /\ pc' = 0
               /\ ~ret'
               /\ trace' = trace
               /\ d'.status = "ST_Disconnected"
               /\ ~sock'.open
      ]_vars

\* connectToServer returned true after the whole AUTH LOGIN exchange
C31_Witness ==
    /\ op = "connectToServer"
    /\ ret
    /\ d.authMethod = "AuthLogin"
    /\ Len(trace) = Len(C31_Greeting(d)) + 6
    /\ trace[Len(trace) - 1] = C31_Write(<<toBase64(d.accountPassword)>>)

\* connectToServer returned true after answering a CRAM-MD5 challenge
C31_WitnessCramMd5 ==
    /\ op = "connectToServer"
    /\ ret
    /\ d.authMethod = "AuthCramMd5"
    /\ msgBody = <<"P", "D", "E", "=">>
    /\ trace[Len(trace) - 1] = C31_Write(cramMd5Token(d, msgBody))

\* the least k with n <= 2 * k
C32_HalfUp(n) == CHOOSE k \in 0 .. n : n <= 2 * k /\ (k = 0 \/ n > 2 * (k - 1))

\* an iteration of the loop is made
C32_Iteration == InWordLoop /\ encodeMimeWord_iterate

\* C32: the loop of the encoded words starts with the chunk size at the
\* length of the text; every iteration cuts the text into chunks that
\* concatenate to the text, all of the chunk size but the last, which is
\* not empty; an iteration that does not return replaces a chunk size n
\* above 1 by ceil(n/2), which is smaller; at chunk size 1 the iteration
\* returns; and every call on a non-empty text returns.
C32_HalvingLoopTerminates ==
    /\ [][/\ (encodeMimeWord_enter /\ arg.text # << >>)
                => /\ ~res'.done
                   /\ res'.maxEncodedTextSize = Len(arg.text)
          /\ C32_Iteration
                => LET n == res.maxEncodedTextSize
                       chunks == res'.chunks
                   IN  /\ StringOf(chunks) = QString(arg.text)
                       /\ chunks # << >>
                       /\ \A i \in 1 .. (Len(chunks) - 1) :
                                Len(chunks[i]) = n
                       /\ Len(chunks[Len(chunks)]) \in 1 .. n
                       /\ n >= 1
                       /\ n = 1 => res'.done
                       /\ ~res'.done
                            => /\ n > 1
                               /\ res'.maxEncodedTextSize = C32_HalfUp(n)
                               /\ res'.maxEncodedTextSize < n
                       /\ res'.done
                            => res'.val =
                                IF arg.f = "encodeMimeWordQ"
                                THEN encodeMimeWordQ(QString(arg.text),
                                                     arg.maxWordSize)
                                ELSE encodeMimeWordB(QString(arg.text),
                                                     arg.maxWordSize)
          ]_vars
    /\ <>res.done

\* the loop returned words above the size asked for, from its third
\* iteration on a text of five characters: chunk sizes 5, 3, 2 were tried,
\* 1 is the last
C32_Witness ==
    /\ res.done
    /\ Len(arg.text) = 5
    /\ arg.maxWordSize = 0
    /\ InWordLoop = FALSE
    /\ res.maxEncodedTextSize = 1
    /\ Len(res.chunks) = 5

\* how often the byte string t occurs in the byte string s
C33_Count(s, t) ==
    Cardinality({i \in 1 .. (Len(s) - Len(t) + 1) :
                    SubSeq(s, i, i + Len(t) - 1) = t})

\* each child behind its opening delimiter, in order
RECURSIVE C33_Framed(_, _)
C33_Framed(parts, token) ==
    IF parts = << >> THEN ""
    ELSE "--" \o token \o "\r\n" \o MimePart_writeToDev(Head(parts)).out
            \o C33_Framed(Tail(parts), token)

\* C33: writeToDev of a multipart with two or more children that all
\* serialise writes the multipart/mixed headers naming one boundary token,
\* a blank line, each child in order behind '--token CRLF', and one
\* '--token-- CRLF' at the end: as many opening delimiters as children, one
\* closing delimiter, the token of the header in all; it fails if a child
\* fails.
C33_MultipartFraming ==
    (arg.f = "MimeMultiPartMixed::writeToDev" /\ res.done
        /\ Len(msg.d_multiPart) >= 2)
    => LET parts == msg.d_multiPart
           n == Len(parts)
           out == res.val.out
           head == "Content-Type: multipart/mixed;\r\n  boundary="
                        \o CreatedUuid \o "\r\n"
       IN  IF \A i \in 1 .. n : MimePart_writeToDev(parts[i]).ok
           THEN /\ res.val.ok
                /\ out = head \o "\r\n" \o C33_Framed(parts, CreatedUuid)
                            \o "--" \o CreatedUuid \o "--\r\n"
                /\ C33_Count(out, "boundary=") = 1
                /\ C33_Count(out, "--" \o CreatedUuid \o "\r\n") = n
                /\ C33_Count(out, "--" \o CreatedUuid \o "--\r\n") = 1
                /\ C33_Count(out, CreatedUuid) = n + 2
           ELSE ~res.val.ok

\* a multipart of a text part and a file part was written, the
\* disposition of the file part set after it was added
C33_Witness ==
    /\ arg.f = "MimeMultiPartMixed::writeToDev"
    /\ res.done
    /\ res.val.ok
    /\ Len(msg.d_multiPart) = 2
    /\ msg.d_multiPart[1].class = "MimeText"
    /\ msg.d_multiPart[2].class = "MimeFile"
    /\ msg.d_multiPart[2].disposition = "NoDisposition"
    /\ C33_Count(res.val.out, "--" \o CreatedUuid \o "\r\n") = 2

\* thread p passes the rotation, the log file being larger than MaxLogSize
C34_Rotates(p) ==
    /\ log.h[p].pc = "rotate"
    /\ log'.h[p].pc = "append"
    /\ log.file.size > MaxLogSize

\* thread p writes its record to the log file
C34_Appends(p) ==
    /\ log.h[p].pc = "append"
    /\ log'.h[p].pc = "leave"
    /\ log'.file # log.file

\* C34: a thread that logs while the log file is larger than 2 MiB removes
\* the backup, renames the log file to the backup and appends its record
\* to a fresh log file; no other thread touches the files between its size
\* check and its append; after every write the log file has at most
\* 2 MiB plus the record written.
C34_RotationBoundsLiveFile ==
    [][\A p \in Producers :
        /\ C34_Rotates(p) => log'.bak = log.file /\ log'.file = NoFile
        /\ C34_Appends(p)
            => /\ log'.file.size <= MaxLogSize + Len(log.h[p].record)
               /\ log'.file.records =
                    Append(log.file.records,
                           [p |-> p, k |-> log.h[p].done + 1,
                            text |-> log.h[p].record])
        /\ (log.h[p].pc \in {"rotate", "append"} /\ log'.h[p] = log.h[p])
            => log'.file = log.file /\ log'.bak = log.bak
      ]_vars

\* what holds of the rotation: it is made by the thread that holds the
\* mutex, no other thread touches the files up to the append, the log file
\* is either put aside whole or left as it is, and a write to a log file of
\* at most 2 MiB leaves at most 2 MiB plus the record.
C34_RotationInsideSection ==
    [][\A p \in Producers :
        /\ C34_Rotates(p)
            => /\ log.mutex = p
               /\ \/ log'.bak = log.file /\ log'.file = NoFile
                  \/ log'.file = log.file /\ log'.bak \in {log.bak, NoFile}
        /\ C34_Appends(p)
            => /\ log.mutex = p
               /\ log.file.size <= MaxLogSize
                    => log'.file.size <= MaxLogSize + Len(log.h[p].record)
               /\ log'.file.records =
                    Append(log.file.records,
                           [p |-> p, k |-> log.h[p].done + 1,
                            text |-> log.h[p].record])
        /\ (log.h[p].pc \in {"rotate", "append"} /\ log'.h[p] = log.h[p])
            => log'.file = log.file /\ log'.bak = log.bak
      ]_vars

\* a record was appended to a fresh log file, the file of more than 2 MiB
\* being the backup
C34_Witness ==
    /\ log.bak.exists
    /\ log.bak.records = << >>
    /\ log.file.exists
    /\ Len(log.file.records) = 1
    /\ log.file.size = Len(log.file.records[1].text)

\* C35: in every state with status Connected a socket exists (a connection
\* type was set), server host, server port and client host are set, and
\* with an auth method other than None username and password are set.
C35_ConnectedConfigComplete ==
    d.status = "ST_Connected"
    => /\ d.socket # "nullptr"
       /\ d.connectionType # "UnknownConnection"
       /\ d.serverHost # ""
       /\ d.serverPort # 0
       /\ d.clientHost # ""
       /\ d.authMethod # "AuthNone"
            => d.accountUsername # "" /\ d.accountPassword # ""

\* a setter was called on a client connected with credentials
C35_Witness ==
    /\ d.status = "ST_Connected"
    /\ op = "set"
    /\ d.authMethod = "AuthLogin"
    /\ d.connectionType = "TlsConnection"

\* the record logged by connectToServer on a client that is connected
C37_AlreadyConnected == "connection not allowed, client is already connected"

\* C37: connectToServer on a client with status Connected returns false,
\* writes nothing, leaves the socket and what is in flight as they are,
\* keeps the status Connected, and sendMessage still accepts every valid
\* message.
C37_ConnectWhileConnected ==
    [][(connectToServer /\ d.status = "ST_Connected")
        => /\ pc' = 0
           /\ ret' = FALSE
           /\ trace' = << >>
           /\ warnings' = <<(<<C37_AlreadyConnected>>)>>
           /\ sock' = sock
           /\ net' = net
           /\ d' = d
           /\ nsent' = nsent
           /\ d'.status = "ST_Connected"
           /\ \A m \in Messages :
                    MimeMessage_isValid(m) => sendMessage_check(d', m) = ""
      ]_vars

\* connectToServer was refused on a connected client
C37_Witness ==
    /\ op = "connectToServer"
    /\ pc = 0
    /\ ~ret
    /\ warnings = <<(<<C37_AlreadyConnected>>)>>
    /\ d.status = "ST_Connected"
    /\ sock.state = "ConnectedState"

\* C39: once a socket exists, socket and connection type never change; a
\* call of setConnectionType on a client that has a socket, whatever its
\* status, or with UnknownConnection, aborts the process and stores
\* nothing; an aborted process takes no further step.
C39_SocketFixedByFirstCall ==
    [][/\ d.socket # "nullptr"
            => d'.socket = d.socket /\ d'.connectionType = d.connectionType
       /\ \A type \in ConnectionTypes :
            (setConnectionType(type)
                /\ (d.socket # "nullptr" \/ type = "UnknownConnection"))
            => aborted' /\ d' = d /\ sock' = sock
       /\ \A type \in ConnectionTypes :
            (setConnectionType(type) /\ d.socket = "nullptr"
                /\ type # "UnknownConnection")
            => /\ ~aborted'
               /\ d'.connectionType = type
               /\ d'.socket # "nullptr"
       /\ ~aborted
      ]_vars

\* the process aborted in setConnectionType called on a connected client
C39_Witness ==
    /\ aborted
    /\ op = "set"
    /\ d.status = "ST_Connected"
    /\ d.socket = "QSslSocket"

\* the step of sendMessage that hands the message to pn_sendMessage
C36_SendsMessage == op = "sendMessage" /\ pc > 0 /\ Step.k = "sendMime"

\* C36: no byte of a message whose writeToDev fails reaches the socket:
\* the writes of a sendMessage call on such a message are command lines
\* only, and the step that would write the message, reached after the 354
\* to DATA, writes nothing and fails the call.
C36_FailingMessageNotWritten ==
    [][/\ (op' = "sendMessage" /\ ~MimeMessage_writeToDev(msg').ok)
            => \A i \in 1 .. Len(trace') :
                    trace'[i][1] = "write"
                        => /\ trace'[i][2] # MimeMessage_bytes(msg')
                           /\ Len(trace'[i][2]) > 1
                           /\ trace'[i][2][Len(trace'[i][2])] = "\r\n"
                           /\ trace'[i][2][1] \in
                                {"MAIL FROM:<", "RCPT TO:<", "DATA"}
       /\ (C36_SendsMessage /\ pn_sendMessage
                /\ ~MimeMessage_writeToDev(msg).ok)
            => /\ trace' = trace
               /\ trace[Len(trace)] = <<"reply", C354>>
               /\ pc' = 0
               /\ ~ret'
               /\ ~sock'.open
               /\ d'.status = "ST_Disconnected"
      ]_vars

\* sendMessage failed on a message that could not be serialised, after the
\* server had answered DATA with 354
C36_Witness ==
    /\ op = "sendMessage"
    /\ pc = 0
    /\ ~ret
    /\ msg = MsgUnwritable
    /\ trace # << >>
    /\ trace[Len(trace)] = <<"reply", C354>>
    /\ warnings = <<(<<"unexpected error, unable to write msg to socket">>)>>
    /\ ~sock.open

\* the byte string s with every occurrence of t deleted, from the left
RECURSIVE C38_Without(_, _)
C38_Without(s, t) ==
    IF Len(s) < Len(t) THEN s
    ELSE IF SubSeq(s, 1, Len(t)) = t
    THEN C38_Without(SubSeq(s, Len(t) + 1, Len(s)), t)
    ELSE Head(s) \o C38_Without(Tail(s), t)

\* C38: what formatQuotedPrintableIntoLines returns for an output of
\* encodeQuotedPrintable and a line size above 0 is that output once every
\* soft break '=' CR LF is deleted; what formatDataIntoLines returns for
\* data without CR and LF and a line size above 0 is the data once every
\* CR LF is deleted; with a line size of 0 or less both return their input.
C38_FoldingLosesNothing ==
    /\ (arg.f = "formatQuotedPrintableIntoLines" /\ res.done)
        => /\ (arg.maxLineSize > 0
                /\ arg.encoded \in
                        {encodeQuotedPrintable(QString(t)) : t \in Texts})
                => C38_Without(res.val, "=\r\n") = arg.encoded
           /\ arg.maxLineSize <= 0 => res.val = arg.encoded
    /\ (arg.f = "formatDataIntoLines" /\ res.done)
        => /\ (arg.maxLineSize > 0
                /\ ~Contains(arg.data, "\r") /\ ~Contains(arg.data, "\n"))
                => C38_Without(res.val, "\r\n") = arg.data
           /\ arg.maxLineSize <= 0 => res.val = arg.data

\* two triplets and a plain byte were folded at line size 5, with one soft
\* break
C38_Witness ==
    /\ arg.f = "formatQuotedPrintableIntoLines"
    /\ res.done
    /\ arg.maxLineSize = 5
    /\ arg.encoded = encodeQuotedPrintable("= a")
    /\ res.val = "=3D=\r\n=20a"

\* data of five bytes was folded into three lines
C38_WitnessData ==
    /\ arg.f = "formatDataIntoLines"
    /\ res.done
    /\ arg.maxLineSize = 2
    /\ arg.data = "a=3D7"
    /\ res.val = "a=\r\n3D\r\n7"

====
